---- MODULE Spec2Model ----
(***************************************************************************)
(* A model of rt (unvalley/rt): the justfile import resolver               *)
(* (src/parser/justfile.rs), the required-argument tokenizer               *)
(* (src/task_args.rs) and the execution ledger (src/history.rs).           *)
(*                                                                         *)
(* The three components share no state.  Each has its own specification    *)
(* (SpecResolve, SpecTok, SpecLedger, SpecMerge); a specification leaves   *)
(* the variables of the other components at their idle values.             *)
(***************************************************************************)
EXTENDS Integers, Sequences, FiniteSets, TLC

VARIABLES
    \* ---- import resolver (src/parser/justfile.rs) ----
    files,      \* the file system: path -> [kind, target, imports, recipes]
    root,       \* the path handed to parse_with_imports
    frames,     \* the activations of parse_file, innermost last
    stack,      \* parse_file's `stack`: normalized paths of the descent
    state,      \* ParseState: [order, items]
    result,     \* what parse_with_imports returned, once it has
    log,        \* history variable: the events of the walk, in order
    \* ---- required-argument tokenizer (src/task_args.rs) ----
    line,       \* the line handed to parse_required_from_just_header
    task,       \* the requested task name
    tpc,        \* where parse_required_from_just_header stands
    header_end, \* its `header_end`, as a position from 1 (0: not set)
    parts,      \* its `parts`
    required,   \* what it returned: [kind: "none" | "some", args]
    lookup,     \* a call of required_args_for_task: [pc, runner, content,
                \* pos, seen, ret]
    \* ---- execution ledger (src/history.rs) ----
    env,        \* the environment: [xdg, home], each None or Some(path)
    fs,         \* the ledger files: path -> [kind, content]
    locks,      \* the exclusive locks held: pairs <<process, path>>
    proc,       \* per process: where its call stands and the call's locals
    hist,       \* history variable: per process, the calls that returned
    ncalls,     \* calls started so far, by all processes
    faults,     \* I/O failures so far
    \* ---- listing parsers (src/parser.rs, src/parser/*.rs) ----
    listing,    \* two calls of parse_tasks on one output: [pc, runner,
                \* output, disk, call, pos, in_files, pending_desc, items,
                \* first, ret]
    \* ---- passthrough arguments and the run (src/main.rs) ----
    plan,       \* a call of collect_passthrough: [pc, required,
                \* cli_passthrough, prompt_optional_args, plan, passthrough, ret]
    run,        \* a call of execute_and_record or rerun_from_history:
                \* [pc, entry, verbose, executed, exit_code, printed, ret]
    \* ---- justfile texts (src/parser/justfile.rs) ----
    texts,      \* the text of each justfile: path -> lines
    scan        \* a call of parse_justfile_contents: [pc, path, pos,
                \* pending_desc, imports, recipes, from]

rvars == <<files, root, frames, stack, state, result, log>>
tvars == <<line, task, tpc, header_end, parts, required>>
kvars == <<lookup>>
lvars == <<env, fs, locks, proc, hist, ncalls, faults>>
pvars == <<listing>>
avars == <<plan>>
evars == <<run>>
jvars == <<texts, scan>>

vars == <<rvars, tvars, kvars, lvars, pvars, avars, evars, jvars>>

\* What the actions of one component leave alone.
notResolver == <<tvars, kvars, lvars, pvars, avars, evars, jvars>>
notTok == <<rvars, kvars, lvars, pvars, avars, evars, jvars>>
notLedger == <<rvars, tvars, kvars, pvars, avars, evars, jvars>>
notLookup == <<rvars, lvars, pvars, avars, evars, jvars>>
notListing == <<rvars, tvars, kvars, lvars, avars, evars, jvars>>
notPlan == <<rvars, tvars, kvars, lvars, pvars, evars, jvars>>

(***************************************************************************)
(* Generic helpers                                                         *)
(***************************************************************************)
Range(s) == {s[i] : i \in 1..Len(s)}

SeqsUpTo(S, n) == UNION {[1..k -> S] : k \in 0..n}

RECURSIVE SumOver(_, _)
SumOver(f, S) ==
    IF S = {} THEN 0
    ELSE LET x == CHOOSE y \in S : TRUE IN f[x] + SumOver(f, S \ {x})

(***************************************************************************)
(* Import resolver: the file system                                        *)
(***************************************************************************)
\* Bounds of the enumerated file systems: import lines and recipe lines,
\* summed over all files.
MaxImportLines == 2
MaxRecipeLines == 2
\* Cap on the nesting of parse_file activations in the model.  The stack
\* check keeps the code below it (C3_Theorem states that the cap is never hit).
MaxDepth == 6

\* R is the root justfile, L a symbolic link to it, A and B sibling files,
\* C and D files only the fixed layouts use, M a path that never exists.
Paths == {"R", "L", "A", "B", "C", "D", "M"}
RegularFiles == {"R", "A", "B"}
Names == {"x", "y"}

ImportSpec(raw, optional) == [raw |-> raw, optional |-> optional]
\* The import lines the enumerated file systems are built from.
ImportSpecs ==
    {ImportSpec("L", FALSE), ImportSpec("A", FALSE),
     ImportSpec("B", FALSE), ImportSpec("B", TRUE)}

ParsedRecipe(name, description) == [name |-> name, description |-> description]

File(imports, recipes) ==
    [kind |-> "file", target |-> "", imports |-> imports, recipes |-> recipes]
Missing == [kind |-> "missing", target |-> "", imports |-> <<>>, recipes |-> <<>>]
Dir == [kind |-> "dir", target |-> "", imports |-> <<>>, recipes |-> <<>>]
Link(t) == [kind |-> "link", target |-> t, imports |-> <<>>, recipes |-> <<>>]

\* The recipes of file p with the names `names`: each description says where
\* the recipe was declared (file and position), so that two declarations of
\* one name are told apart.
RecipesOf(p, names) ==
    [i \in 1..Len(names) |-> ParsedRecipe(names[i], <<p, i>>)]

Layouts(total) ==
    {l \in [RegularFiles -> 0..total] : SumOver(l, RegularFiles) <= total}

\* The layout of the unit test parse_justfile_imports_recursively:
\* justfile (R) imports nested.just (A), other.just (B) and, optionally,
\* missing.just (M); nested.just imports common.just (C).
TestFiles ==
    [p \in Paths |->
        CASE p = "R" -> File(<<ImportSpec("A", FALSE), ImportSpec("B", FALSE),
                               ImportSpec("M", TRUE)>>,
                             <<ParsedRecipe("y", <<"R", 1>>)>>)
          [] p = "A" -> File(<<ImportSpec("C", FALSE)>>,
                             <<ParsedRecipe("x", <<"A", 1>>),
                               ParsedRecipe("n", <<"A", 2>>)>>)
          [] p = "B" -> File(<<>>, <<ParsedRecipe("x", <<"B", 1>>)>>)
          [] p = "C" -> File(<<>>, <<ParsedRecipe("x", <<"C", 1>>)>>)
          [] p = "L" -> Link("R")
          [] OTHER -> Missing]

\* A layout with two files at one depth: the root imports A and B; B imports
\* C and D, which both define x (C defines n as well); A imports D too.
CousinFiles ==
    [p \in Paths |->
        CASE p = "R" -> File(<<ImportSpec("A", FALSE), ImportSpec("B", FALSE)>>,
                             <<ParsedRecipe("y", <<"R", 1>>)>>)
          [] p = "A" -> File(<<ImportSpec("D", FALSE)>>, <<>>)
          [] p = "B" -> File(<<ImportSpec("C", FALSE), ImportSpec("D", FALSE)>>, <<>>)
          [] p = "C" -> File(<<>>, <<ParsedRecipe("x", <<"C", 1>>),
                                     ParsedRecipe("n", <<"C", 2>>)>>)
          [] p = "D" -> File(<<>>, <<ParsedRecipe("x", <<"D", 1>>)>>)
          [] p = "L" -> Link("R")
          [] OTHER -> Missing]

\* canonicalize(path): a link resolves to its target; a path that does not
\* exist cannot be canonicalized.
Canonicalize(p) ==
    IF files[p].kind = "link" THEN files[p].target ELSE p

\* normalize_path: canonicalize(path), or the path itself when that fails.
normalize_path(p) ==
    IF files[p].kind = "missing" THEN p ELSE Canonicalize(p)

\* resolve_import_path: every file of the model lies in one directory and
\* every raw import path is relative, so the join names the file `raw`.
resolve_import_path(base, raw) == raw

\* Path::exists (follows links).
Exists(p) == files[p].kind # "missing"

\* std::fs::read_to_string succeeds on a file (or a link to one) only.
Readable(p) == files[Canonicalize(p)].kind = "file"

\* parse_justfile_contents(read_to_string(path)): the imports and recipes.
ParsedOf(p) == files[Canonicalize(p)]

(***************************************************************************)
(* Import resolver: ParseState and the walk                                *)
(***************************************************************************)
TaskEntry(name, description, depth, order) ==
    [name |-> name, description |-> description, depth |-> depth, order |-> order]

Lookup(items, name) == {e \in items : e.name = name}

\* (mutant of ShouldReplace: an equal depth does not replace)
ShouldReplace_Strict(items, name, depth) ==
    \/ Lookup(items, name) = {}
    \/ \E existing \in Lookup(items, name) : depth < existing.depth

\* ParseState::insert's decision.
ShouldReplace(items, name, depth) ==
    \/ Lookup(items, name) = {}
    \/ \E existing \in Lookup(items, name) :
          depth < existing.depth \/ depth = existing.depth

\* (mutant of Insert: a replacing entry keeps the order of the one it replaces)
Insert_KeepOrder(st, recipe, depth) ==
    LET old == Lookup(st.items, recipe.name)
        order == IF old = {} THEN st.order ELSE (CHOOSE e \in old : TRUE).order
        entry == TaskEntry(recipe.name, recipe.description, depth, order)
    IN  [order |-> st.order + 1,
         items |-> IF ShouldReplace(st.items, recipe.name, depth)
                   THEN (st.items \ old) \cup {entry}
                   ELSE st.items]

\* ParseState::insert
Insert(st, recipe, depth) ==
    LET order == st.order
        entry == TaskEntry(recipe.name, recipe.description, depth, order)
    IN  [order |-> st.order + 1,
         items |-> IF ShouldReplace(st.items, recipe.name, depth)
                   THEN (st.items \ Lookup(st.items, recipe.name)) \cup {entry}
                   ELSE st.items]

Frame(path, depth, pc, k, j, fid) ==
    [path |-> path, depth |-> depth, pc |-> pc, k |-> k, j |-> j, fid |-> fid]

Event(ev, fid, path, idx, name, depth, desc) ==
    [ev |-> ev, fid |-> fid, path |-> path, idx |-> idx, name |-> name,
     depth |-> depth, desc |-> desc]

Running == [kind |-> "running", catalog |-> <<>>, error |-> "", path |-> ""]
Ok(catalog) == [kind |-> "ok", catalog |-> catalog, error |-> "", path |-> ""]
Err(error, path) == [kind |-> "err", catalog |-> <<>>, error |-> error, path |-> path]

Top == frames[Len(frames)]
Pop(s) == SubSeq(s, 1, Len(s) - 1)
SetTop(f) == [frames EXCEPT ![Len(frames)] = f]

\* (mutant of OnStack: only the innermost entry of the stack is compared)
OnStack_TopOnly(stk, normalized) == stk # <<>> /\ stk[Len(stk)] = normalized

\* The stack check at the head of parse_file.
OnStack(stk, normalized) == \E i \in 1..Len(stk) : stk[i] = normalized

InitFilesEnumerated ==
    \E rootkind \in {"file", "dir"}, bkind \in {"file", "missing", "dir"} :
    \E il \in Layouts(MaxImportLines), rl \in Layouts(MaxRecipeLines) :
      /\ rootkind = "dir" => \A p \in RegularFiles : il[p] = 0 /\ rl[p] = 0
      /\ bkind # "file" => il["B"] = 0 /\ rl["B"] = 0
      /\ \E iR \in [1..il["R"] -> ImportSpecs], iA \in [1..il["A"] -> ImportSpecs],
            iB \in [1..il["B"] -> ImportSpecs] :
         \E nR \in [1..rl["R"] -> Names], nA \in [1..rl["A"] -> Names],
            nB \in [1..rl["B"] -> Names] :
           \* the code only compares names for equality: the first recipe
           \* line of the layout is called x
           /\ LET all == nR \o nA \o nB
              IN  IF Len(all) = 0 THEN TRUE ELSE all[1] = "x"
           /\ files = [p \in Paths |->
              CASE p = "R" -> IF rootkind = "file"
                              THEN File(iR, RecipesOf("R", nR)) ELSE Dir
                [] p = "A" -> File(iA, RecipesOf("A", nA))
                [] p = "B" -> IF bkind = "file" THEN File(iB, RecipesOf("B", nB))
                              ELSE IF bkind = "dir" THEN Dir ELSE Missing
                [] p = "L" -> Link("R")
                [] OTHER -> Missing]

\* No call of required_args_for_task.
NoLookup ==
    [pc |-> "idle", runner |-> "", content |-> [kind |-> "missing", text |-> <<>>],
     pos |-> 0, seen |-> <<>>, ret |-> [kind |-> "running", args |-> <<>>, error |-> ""]]

\* No call of parse_tasks.
NoListing ==
    [pc |-> "idle", runner |-> "", output |-> <<>>, disk |-> <<>>, call |-> 0,
     pos |-> 0, in_files |-> FALSE,
     pending_desc |-> [kind |-> "none", args |-> <<>>],
     items |-> <<>>, first |-> <<>>, ret |-> <<>>]

\* No call of collect_passthrough.
NoPlan ==
    [pc |-> "idle", required |-> <<>>, cli_passthrough |-> <<>>,
     prompt_optional_args |-> FALSE,
     plan |-> [initial_passthrough |-> <<>>, missing_required |-> <<>>,
               prompt_optional_args |-> FALSE],
     passthrough |-> <<>>, ret |-> [kind |-> "running", args |-> <<>>]]

\* No call of execute_and_record or rerun_from_history.
NoRun ==
    [pc |-> "idle", entry |-> "", verbose |-> FALSE, executed |-> FALSE,
     exit_code |-> 0, printed |-> <<>>,
     ret |-> [kind |-> "running", code |-> 0, error |-> ""]]

\* No call of parse_justfile_contents.
NoScan ==
    [pc |-> "idle", path |-> "", pos |-> 0,
     pending_desc |-> [kind |-> "none", args |-> <<>>],
     imports |-> <<>>, recipes |-> <<>>, from |-> <<>>]

\* The components of main.rs and the listing parsers at rest, and no
\* justfile text.
MainIdle ==
    /\ listing = NoListing
    /\ plan = NoPlan
    /\ run = NoRun
    /\ texts = <<>> /\ scan = NoScan

\* The tokenizer at rest.
TokIdle ==
    /\ lookup = NoLookup
    /\ line = <<>> /\ task = <<>> /\ tpc = "idle"
    /\ header_end = 0 /\ parts = <<>>
    /\ required = [kind |-> "none", args |-> <<>>]

\* The ledger at rest: no process has called it.
LedgerIdle ==
    /\ env = [xdg |-> [kind |-> "none", args |-> <<>>],
              home |-> [kind |-> "none", args |-> <<>>]]
    /\ fs = <<>> /\ locks = {} /\ proc = <<>> /\ hist = <<>>
    /\ ncalls = 0 /\ faults = 0

\* parse_with_imports up to its call of parse_file(path, 0, ..).
InitResolve ==
    /\ MainIdle
    /\ TokIdle
    /\ LedgerIdle
    /\ \/ InitFilesEnumerated /\ root = "R"
       \/ files = TestFiles /\ root \in {"R", "L"}
       \/ files = CousinFiles /\ root = "R"
    /\ frames = <<Frame(root, 0, "enter", 0, 0, 0)>>
    /\ stack = <<>>
    /\ state = [order |-> 0, items |-> {}]
    /\ result = Running
    /\ log = <<>>

\* parse_file: the path is already on the stack; return Ok(()).
ParseFileOnStack ==
    /\ result.kind = "running" /\ frames # <<>> /\ Top.pc = "enter"
    /\ OnStack(stack, normalize_path(Top.path))
    /\ frames' = Pop(frames)
    /\ log' = Append(log, Event("skip", Top.fid, Top.path, 0, "", Top.depth, <<>>))
    /\ UNCHANGED <<files, root, stack, state, result, notResolver>>

\* parse_file: read_to_string fails; `?` carries the error out of every
\* activation and out of parse_with_imports.
ParseFileReadError ==
    /\ result.kind = "running" /\ frames # <<>> /\ Top.pc = "enter"
    /\ ~OnStack(stack, normalize_path(Top.path))
    /\ ~Readable(Top.path)
    /\ result' = Err("io", Top.path)
    /\ frames' = <<>>
    /\ UNCHANGED <<files, root, stack, state, log, notResolver>>

\* parse_file: the file is read and parsed, and pushed on the stack.
ParseFileRead ==
    /\ result.kind = "running" /\ frames # <<>> /\ Top.pc = "enter"
    /\ ~OnStack(stack, normalize_path(Top.path))
    /\ Readable(Top.path)
    /\ stack' = Append(stack, normalize_path(Top.path))
    /\ frames' = SetTop([Top EXCEPT !.pc = "imports",
                                    !.k = Len(ParsedOf(Top.path).imports),
                                    !.fid = Len(log) + 1])
    /\ log' = Append(log, Event("visit", Len(log) + 1, Top.path, 0, "", Top.depth, <<>>))
    /\ UNCHANGED <<files, root, state, result, notResolver>>

\* (mutant of ImportAt: the loop takes the imports in declaration order)
ImportAt_Forward(n, k) == n - k + 1

\* The order in which the import loop takes the imports: the position, in
\* the declared list of n imports, of the import taken when k are left.
\* `parsed.imports.iter().rev()` takes the last declared first.
ImportAt(n, k) == k

\* (mutant of SkipsMissing: every missing import is skipped)
SkipsMissing_Always(import) == TRUE

\* Whether a missing import is skipped instead of failing the resolution.
SkipsMissing(import) == import.optional

\* One turn of the import loop whose target does not exist.
ImportMissing ==
    /\ result.kind = "running" /\ frames # <<>> /\ Top.pc = "imports" /\ Top.k > 0
    /\ LET n == Len(ParsedOf(Top.path).imports)
           idx == ImportAt(n, Top.k)
           import == ParsedOf(Top.path).imports[idx]
           resolved == resolve_import_path(Top.path, import.raw)
       IN  /\ ~Exists(resolved)
           /\ IF SkipsMissing(import)
              THEN /\ frames' = SetTop([Top EXCEPT !.k = Top.k - 1])
                   /\ log' = Append(log, Event("import-skipped", Top.fid, resolved,
                                               idx, "", Top.depth, <<>>))
                   /\ UNCHANGED result
              ELSE /\ result' = Err("import not found", resolved)
                   /\ frames' = <<>>
                   /\ UNCHANGED log
    /\ UNCHANGED <<files, root, stack, state, notResolver>>

\* One turn of the import loop whose target exists: parse_file(resolved, depth + 1).
ImportCall ==
    /\ result.kind = "running" /\ frames # <<>> /\ Top.pc = "imports" /\ Top.k > 0
    /\ Len(frames) < MaxDepth
    /\ LET n == Len(ParsedOf(Top.path).imports)
           idx == ImportAt(n, Top.k)
           import == ParsedOf(Top.path).imports[idx]
           resolved == resolve_import_path(Top.path, import.raw)
       IN  /\ Exists(resolved)
           /\ frames' = Append(SetTop([Top EXCEPT !.k = Top.k - 1]),
                               Frame(resolved, Top.depth + 1, "enter", 0, 0, 0))
           /\ log' = Append(log, Event("import", Top.fid, resolved, idx, "", Top.depth, <<>>))
    /\ UNCHANGED <<files, root, stack, state, result, notResolver>>

\* The import loop is over: stack.pop().
ImportsDone ==
    /\ result.kind = "running" /\ frames # <<>> /\ Top.pc = "imports" /\ Top.k = 0
    /\ stack' = Pop(stack)
    /\ frames' = SetTop([Top EXCEPT !.pc = "recipes", !.j = 1])
    /\ UNCHANGED <<files, root, state, result, log, notResolver>>

\* One turn of the recipe loop: state.insert(recipe, depth).
InsertRecipe ==
    /\ result.kind = "running" /\ frames # <<>> /\ Top.pc = "recipes"
    /\ Top.j <= Len(ParsedOf(Top.path).recipes)
    /\ LET recipe == ParsedOf(Top.path).recipes[Top.j]
       IN  /\ state' = Insert(state, recipe, Top.depth)
           /\ log' = Append(log, Event("insert", Top.fid, Top.path, state.order,
                                       recipe.name, Top.depth, recipe.description))
    /\ frames' = SetTop([Top EXCEPT !.j = Top.j + 1])
    /\ UNCHANGED <<files, root, stack, result, notResolver>>

\* parse_file returns Ok(()).
ParseFileReturn ==
    /\ result.kind = "running" /\ frames # <<>> /\ Top.pc = "recipes"
    /\ Top.j > Len(ParsedOf(Top.path).recipes)
    /\ frames' = Pop(frames)
    /\ UNCHANGED <<files, root, stack, state, result, log, notResolver>>

\* entries.sort_by_key(|entry| entry.order)
RECURSIVE SortByOrder(_)
SortByOrder(items) ==
    IF items = {} THEN <<>>
    ELSE LET first == CHOOSE e \in items : \A o \in items : e.order <= o.order
         IN  <<first>> \o SortByOrder(items \ {first})

TaskItem(entry) == [name |-> entry.name, description |-> entry.description]

\* parse_with_imports after parse_file returned Ok: sort and emit.
Collect ==
    /\ result.kind = "running" /\ frames = <<>>
    /\ LET entries == SortByOrder(state.items)
       IN  result' = Ok([i \in 1..Len(entries) |-> TaskItem(entries[i])])
    /\ UNCHANGED <<files, root, frames, stack, state, log, notResolver>>

NextResolve ==
    \/ ParseFileOnStack
    \/ ParseFileReadError
    \/ ParseFileRead
    \/ ImportMissing
    \/ ImportCall
    \/ ImportsDone
    \/ InsertRecipe
    \/ ParseFileReturn
    \/ Collect

SpecResolve == InitResolve /\ [][NextResolve]_vars

\* The walk is one sequential call: it runs until it returns.
FairSpecResolve == SpecResolve /\ WF_vars(NextResolve)

(***************************************************************************)
(* Import resolver: the claims                                             *)
(***************************************************************************)
AllNames == Names \cup {"n"}

EventsOf(kinds) == {i \in 1..Len(log) : log[i].ev \in kinds}
Inserts == EventsOf({"insert"})
InsertsOf(n) == {i \in Inserts : log[i].name = n}

\* Among the recorded definitions of n: one at the smallest depth and, among
\* those, the one inserted last.
Wins(i, n) ==
    \A j \in InsertsOf(n) :
        \/ log[i].depth < log[j].depth
        \/ log[i].depth = log[j].depth /\ log[i].idx >= log[j].idx

CatalogOf(n) == {c \in 1..Len(result.catalog) : result.catalog[c].name = n}

\* C1: after resolve(root) returned a catalog, every task name recorded
\* during the walk has exactly one entry in the catalog, the one recorded at
\* the smallest depth and, among those, inserted last; a name nothing
\* recorded has none; and a name the root file defines carries a description
\* of the root file.
C1_Theorem ==
    result.kind = "ok" =>
        \A n \in AllNames :
            /\ InsertsOf(n) = {} => CatalogOf(n) = {}
            /\ InsertsOf(n) # {} =>
                  /\ Cardinality(CatalogOf(n)) = 1
                  /\ \A c \in CatalogOf(n) : \E i \in InsertsOf(n) :
                        /\ Wins(i, n)
                        /\ result.catalog[c].description = log[i].desc
            /\ (\E r \in Range(ParsedOf(root).recipes) : r.name = n) =>
                  \A c \in CatalogOf(n) : result.catalog[c].description[1] = "R"

\* A catalog was returned in which a name is defined by the root file and by
\* an imported file, and another definition of it ties at one depth.
C1_Witness ==
    /\ result.kind = "ok"
    /\ \E n \in AllNames : \E i, j \in InsertsOf(n) :
          log[i].depth = 0 /\ log[j].depth > 0
    /\ \E n \in AllNames : \E i, j \in InsertsOf(n) :
          i # j /\ log[i].depth = log[j].depth

Calls == EventsOf({"import"})
Taken == EventsOf({"import", "import-skipped"})

\* C2 as stated: the imports of a visited file are visited in the order they
\* are declared, all of them before any of the file's recipes is recorded.
C2_AsClaimed ==
    /\ \A i, j \in Calls :
          (i < j /\ log[i].fid = log[j].fid) => log[i].idx < log[j].idx
    /\ \A r \in Inserts : \A i \in Calls : log[i].fid = log[r].fid => i < r

VisitOf(fid) == log[fid]

\* C2, amended: the imports of a visited file are taken in the reverse of
\* the order they are declared (the last declared first), and every one of
\* them has been taken before any of the file's recipes is recorded.
C2_Theorem ==
    /\ \A i, j \in Taken :
          (i < j /\ log[i].fid = log[j].fid) => log[i].idx > log[j].idx
    /\ \A r \in Inserts :
          /\ \A i \in Taken : log[i].fid = log[r].fid => i < r
          /\ Cardinality({i \in Taken : log[i].fid = log[r].fid})
                = Len(ParsedOf(VisitOf(log[r].fid).path).imports)

\* A file with two existing imports has visited both and recorded a recipe.
C2_Witness ==
    \E r \in Inserts : \E i, j \in Calls :
        i # j /\ log[i].fid = log[r].fid /\ log[j].fid = log[r].fid

\* The files whose import loop is running: the current descent.
Descent ==
    {Canonicalize(frames[i].path) : i \in {k \in 1..Len(frames) : frames[k].pc = "imports"}}

\* parse_file was entered for a file of the current descent.
ReEntered ==
    /\ frames # <<>> /\ Top.pc = "enter"
    /\ Exists(Top.path) /\ Canonicalize(Top.path) \in Descent

ResolveDone == result.kind # "running"

\* C3: resolve(root) terminates, whatever the imports (self-imports and
\* cycles included); entering a file of the current descent records nothing,
\* raises no error and returns to the importing file, whose walk goes on;
\* and the nesting of the walk stays below the model's cap.
C3_Theorem ==
    /\ <>ResolveDone
    /\ [][ReEntered => /\ frames' = Pop(frames)
                       /\ state' = state /\ result' = result
                       /\ stack' = stack]_vars
    /\ [](Len(frames) < MaxDepth)

\* A file of the current descent was entered again, through an import cycle,
\* and the walk went on to return.
C3_Witness ==
    /\ result.kind = "ok"
    /\ \E i \in EventsOf({"skip"}) : log[i].depth >= 2

\* Import targets of p that exist.
ImportTargets(p) ==
    {resolve_import_path(p, ParsedOf(p).imports[i].raw) : i \in 1..Len(ParsedOf(p).imports)}

RECURSIVE ReachFrom(_)
\* The paths the import declarations lead to from the root, through files
\* that can be read.
ReachFrom(S) ==
    LET more == UNION {{t \in ImportTargets(p) : Exists(t)} : p \in {q \in S : Readable(q)}}
    IN  IF more \subseteq S THEN S ELSE ReachFrom(S \cup more)

Reachable == ReachFrom({root})

\* The non-optional imports of reachable files whose target does not exist.
MissingRequired ==
    {t \in Paths : \E p \in Reachable :
        /\ Readable(p)
        /\ \E i \in 1..Len(ParsedOf(p).imports) :
              LET import == ParsedOf(p).imports[i]
              IN  /\ ~import.optional
                  /\ resolve_import_path(p, import.raw) = t
                  /\ ~Exists(t)}

Unreadable == {p \in Reachable : ~Readable(p)}

\* C9: resolve(root) returns an error, and no catalog, exactly when a file
\* the imports lead to cannot be read or has a non-optional import whose
\* target does not exist; a not-found error names such a target, an I/O
\* error such a file; optional imports of missing targets cause no error.
C9_Theorem ==
    ResolveDone =>
        /\ result.kind = "err" <=> (MissingRequired # {} \/ Unreadable # {})
        /\ result.kind = "err" => result.catalog = <<>>
        /\ (result.kind = "err" /\ result.error = "import not found")
              => result.path \in MissingRequired
        /\ (result.kind = "err" /\ result.error = "io")
              => result.path \in Unreadable

\* An optional import of a missing file was skipped and, later in the same
\* walk, a non-optional import of a missing file failed the resolution.
C9_Witness ==
    /\ result.kind = "err" /\ result.error = "import not found"
    /\ EventsOf({"import-skipped"}) # {}

\* An optional import of a missing file was skipped and a catalog returned.
C9_WitnessSkipped ==
    /\ result.kind = "ok"
    /\ EventsOf({"import-skipped"}) # {}

(***************************************************************************)
(* Required-argument tokenizer (src/task_args.rs)                          *)
(*                                                                         *)
(* A string is a sequence of one-character strings.                        *)
(***************************************************************************)
\* Longest enumerated header line.
MaxLineLen == 6

\* The character ` (a string literal of the module cannot hold it).
Backtick == "backtick"

Letters ==
    {"A", "E", "F", "G", "I", "L", "M", "N", "R", "S", "T", "V", "a", "b", "d",
     "e", "f", "h", "i", "l", "n", "o", "p", "r", "s", "t", "u", "w", "y"}
Digits == {"0", "1"}

\* char::is_whitespace, on the characters of the model
IsWhitespace(c) == c \in {" ", "\t"}
IsAsciiAlphabetic(c) == c \in Letters
IsAsciiAlphanumeric(c) == c \in Letters \cup Digits

RECURSIVE TrimStartMatches(_, _)
\* str::trim_start_matches
TrimStartMatches(s, set) ==
    IF s # <<>> /\ s[1] \in set THEN TrimStartMatches(Tail(s), set) ELSE s

RECURSIVE TrimEndMatches(_, _)
\* str::trim_end_matches
TrimEndMatches(s, set) ==
    IF s # <<>> /\ s[Len(s)] \in set
    THEN TrimEndMatches(SubSeq(s, 1, Len(s) - 1), set) ELSE s

\* str::trim
Trim(s) == TrimEndMatches(TrimStartMatches(s, {" ", "\t"}), {" ", "\t"})

\* struct ParseState of task_args.rs; quote is the open quote character, ""
\* for Option::None.
ScanState(quote, escaped, paren, bracket, brace) ==
    [quote |-> quote, escaped |-> escaped, paren |-> paren,
     bracket |-> bracket, brace |-> brace]

StartState == ScanState("", FALSE, 0, 0, 0)

\* ParseState::top_level
top_level(st) ==
    st.quote = "" /\ st.paren = 0 /\ st.bracket = 0 /\ st.brace = 0

\* usize::saturating_sub(1)
SaturatingDec(n) == IF n = 0 THEN 0 ELSE n - 1

\* (mutant of advance_state: a backslash inside a quote escapes nothing)
advance_state_NoEscape(st, ch) ==
    IF st.quote # ""
    THEN IF ch = st.quote THEN [st EXCEPT !.quote = ""] ELSE st
    ELSE CASE ch \in {"'", "\"", Backtick} -> [st EXCEPT !.quote = ch]
           [] ch = "(" -> [st EXCEPT !.paren = @ + 1]
           [] ch = ")" -> [st EXCEPT !.paren = SaturatingDec(@)]
           [] ch = "[" -> [st EXCEPT !.bracket = @ + 1]
           [] ch = "]" -> [st EXCEPT !.bracket = SaturatingDec(@)]
           [] ch = "{" -> [st EXCEPT !.brace = @ + 1]
           [] ch = "}" -> [st EXCEPT !.brace = SaturatingDec(@)]
           [] OTHER -> st

\* advance_state
advance_state(st, ch) ==
    IF st.quote # ""
    THEN IF st.escaped THEN [st EXCEPT !.escaped = FALSE]
         ELSE IF ch = "\\" THEN [st EXCEPT !.escaped = TRUE]
         ELSE IF ch = st.quote THEN [st EXCEPT !.quote = ""]
         ELSE st
    ELSE CASE ch \in {"'", "\"", Backtick} -> [st EXCEPT !.quote = ch]
           [] ch = "(" -> [st EXCEPT !.paren = @ + 1]
           [] ch = ")" -> [st EXCEPT !.paren = SaturatingDec(@)]
           [] ch = "[" -> [st EXCEPT !.bracket = @ + 1]
           [] ch = "]" -> [st EXCEPT !.bracket = SaturatingDec(@)]
           [] ch = "{" -> [st EXCEPT !.brace = @ + 1]
           [] ch = "}" -> [st EXCEPT !.brace = SaturatingDec(@)]
           [] OTHER -> st

RECURSIVE FindColonFrom(_, _, _)
FindColonFrom(input, idx, st) ==
    IF idx > Len(input) THEN 0
    ELSE IF top_level(st) /\ input[idx] = ":" THEN idx
    ELSE FindColonFrom(input, idx + 1, advance_state(st, input[idx]))

\* find_top_level_colon: the position (from 1) of the colon, 0 for None.
find_top_level_colon(input) == FindColonFrom(input, 1, StartState)

RECURSIVE SplitFrom(_, _, _, _, _)
SplitFrom(input, idx, st, acc, start) ==
    IF idx > Len(input)
    THEN IF start # 0 THEN Append(acc, SubSeq(input, start, Len(input))) ELSE acc
    ELSE IF top_level(st) /\ IsWhitespace(input[idx])
    THEN SplitFrom(input, idx + 1, st,
                   IF start # 0 THEN Append(acc, SubSeq(input, start, idx - 1)) ELSE acc,
                   0)
    ELSE SplitFrom(input, idx + 1, advance_state(st, input[idx]), acc,
                   IF start = 0 THEN idx ELSE start)

\* split_top_level_whitespace
split_top_level_whitespace(input) == SplitFrom(input, 1, StartState, <<>>, 0)

RECURSIVE HasFrom(_, _, _, _)
HasFrom(input, target, idx, st) ==
    IF idx > Len(input) THEN FALSE
    ELSE IF top_level(st) /\ input[idx] = target THEN TRUE
    ELSE HasFrom(input, target, idx + 1, advance_state(st, input[idx]))

\* has_top_level_char
has_top_level_char(input, target) == HasFrom(input, target, 1, StartState)

\* is_valid_identifier
is_valid_identifier(value) ==
    /\ value # <<>>
    /\ value[1] = "_" \/ IsAsciiAlphabetic(value[1])
    /\ \A i \in 2..Len(value) :
          value[i] = "_" \/ value[i] = "-" \/ IsAsciiAlphanumeric(value[i])

\* (mutant of NameMatches: the requested name need only begin the header's)
NameMatches_Prefix(raw_name, name) ==
    LET n == TrimStartMatches(raw_name, {"@"})
    IN  Len(n) >= Len(name) /\ SubSeq(n, 1, Len(name)) = name

\* The comparison of the header's first token with the requested task.
NameMatches(raw_name, name) == TrimStartMatches(raw_name, {"@"}) = name

RECURSIVE RequiredOf_KeepsStar(_)
\* (mutant of RequiredOf: a token that starts with * is not passed over)
RequiredOf_KeepsStar(raws) ==
    IF raws = <<>> THEN <<>>
    ELSE LET token == TrimEndMatches(raws[1], {","})
             clean == TrimStartMatches(token, {"$", "+", "*"})
         IN  IF token = <<>> \/ has_top_level_char(token, "=")
             THEN RequiredOf_KeepsStar(Tail(raws))
             ELSE IF ~is_valid_identifier(clean) THEN RequiredOf_KeepsStar(Tail(raws))
             ELSE <<clean>> \o RequiredOf_KeepsStar(Tail(raws))

RECURSIVE RequiredOf(_)
\* The loop over the tokens after the name.
RequiredOf(raws) ==
    IF raws = <<>> THEN <<>>
    ELSE LET token == TrimEndMatches(raws[1], {","})
             clean == TrimStartMatches(token, {"$", "+", "*"})
         IN  IF token = <<>> \/ token[1] = "*" \/ has_top_level_char(token, "=")
             THEN RequiredOf(Tail(raws))
             ELSE IF ~is_valid_identifier(clean) THEN RequiredOf(Tail(raws))
             ELSE <<clean>> \o RequiredOf(Tail(raws))

None == [kind |-> "none", args |-> <<>>]
Some(args) == [kind |-> "some", args |-> args]

\* All strings over alphabet of length at most n.
Strings(alphabet, n) == UNION {[1..k -> alphabet] : k \in 0..n}

\* The enumerated header lines: for every kind of quote and of bracket, all
\* short lines over a name character, the separators and that delimiter;
\* lines with = inside quotes and brackets; lines mixing the delimiters;
\* lines with the @ prefix and a second name; lines with tabs and #.
Alphabets ==
    {{"a", " ", ":", q, "\\"} : q \in {"'", "\"", Backtick}}
    \cup {{"a", " ", ":", "(", ")"}, {"a", " ", ":", "[", "]"},
          {"a", " ", ":", "{", "}"}}
    \cup {{"a", " ", ":", "=", "'"}, {"a", " ", ":", "=", "(", ")"},
          {"'", "\"", "(", "]", ":"}, {"a", "b", "@", " ", ":"},
          {"a", "\t", "#", " ", ":"}}

EnumLines == UNION {Strings(alphabet, MaxLineLen) : alphabet \in Alphabets}

\* The headers of the unit tests of task_args.rs, with the task asked for.
TestCases ==
    {<< <<"d", "e", "p", "l", "o", "y", " ", "E", "N", "V", "=", "'", "p", "r",
          "o", "d", ":", "b", "l", "u", "e", "'", " ", "T", "A", "R", "G", "E",
          "T", ":", " ", "b", "u", "i", "l", "d">>,
        <<"d", "e", "p", "l", "o", "y">> >>,
     << <<"t", "e", "s", "t", " ", "M", "S", "G", "=", "'", "h", "e", "l", "l",
          "o", " ", "w", "o", "r", "l", "d", "'", " ", "T", "A", "R", "G", "E",
          "T", ":", " ", "r", "u", "n">>,
        <<"t", "e", "s", "t">> >>,
     << <<"t", "e", "s", "t", " ", "T", "E", "S", "T", " ", "E", "N", "V", "=",
          "'", "p", "r", "o", "d", "'", " ", "+", "F", "I", "L", "E", "S", " ",
          "*", "R", "E", "S", "T", ":", " ", "b", "u", "i", "l", "d">>,
        <<"t", "e", "s", "t">> >>,
     << <<"b", "u", "i", "l", "d", " ", "+", "F", "I", "L", "E", "S", " ", "*",
          "R", "E", "S", "T", " ", "T", "A", "R", "G", "E", "T", ":", " ", "r",
          "u", "n">>,
        <<"b", "u", "i", "l", "d">> >>,
     << <<"f", "o", "o", " ", ":", "=", " ", "'", "b", "a", "r", "'">>,
        <<"f", "o", "o">> >>}

\* Headers of the task a with up to MaxTokens parameter tokens: plain,
\* variadic (+ and *), exported ($), defaulted (=), followed by a comma, and
\* tokens that are no identifier.
MaxTokens == 3

ParamTokens ==
    {<<"a">>, <<"b">>, <<"+", "a">>, <<"$", "b">>, <<"*", "a">>,
     <<"a", "=", "b">>, <<"b", ",">>, <<"$", "*", "a">>, <<"+", "1">>}

RECURSIVE JoinTokens(_)
JoinTokens(toks) ==
    IF toks = <<>> THEN <<>> ELSE <<" ">> \o toks[1] \o JoinTokens(Tail(toks))

TokenLines ==
    {<<"a">> \o JoinTokens(toks) \o <<":">> : toks \in SeqsUpTo(ParamTokens, MaxTokens)}

\* The resolver at rest.
ResolveIdle ==
    /\ files = [p \in Paths |-> Missing] /\ root = "R"
    /\ frames = <<>> /\ stack = <<>>
    /\ state = [order |-> 0, items |-> {}]
    /\ result = Running /\ log = <<>>

\* A call parse_required_from_just_header(line, task).
InitTok ==
    /\ MainIdle
    /\ ResolveIdle
    /\ LedgerIdle
    /\ lookup = NoLookup
    /\ \/ line \in EnumLines /\ task = <<"a">>
       \/ \E c \in TestCases : line = c[1] /\ task = c[2]
       \/ line \in TokenLines /\ task = <<"a">>
    /\ tpc = "start"
    /\ header_end = 0
    /\ parts = <<>>
    /\ required = None

trimmed == Trim(line)
left == Trim(SubSeq(trimmed, 1, header_end - 1))

\* The line is no header: indented, blank or a comment.
NotAHeader ==
    \/ line # <<>> /\ line[1] \in {" ", "\t"}
    \/ trimmed = <<>>
    \/ trimmed[1] = "#"

\* parse_required_from_just_header up to `left`: the guards and the search
\* for the colon that ends the header.
TokHeader ==
    /\ tpc = "start"
    /\ IF NotAHeader
       THEN /\ tpc' = "done" /\ required' = None
            /\ UNCHANGED header_end
       ELSE LET end == find_top_level_colon(trimmed)
                assignment == end # 0 /\ end < Len(trimmed) /\ trimmed[end + 1] = "="
                l == Trim(SubSeq(trimmed, 1, end - 1))
            IN  /\ header_end' = end
                /\ IF end = 0 \/ assignment \/ l = <<>>
                   THEN tpc' = "done" /\ required' = None
                   ELSE tpc' = "split" /\ UNCHANGED required
    /\ UNCHANGED <<line, task, parts, notTok>>

\* The split of `left` and the comparison of its first token with the task.
TokSplit ==
    /\ tpc = "split"
    /\ parts' = split_top_level_whitespace(left)
    /\ IF parts' = <<>> \/ ~NameMatches(parts'[1], task)
       THEN tpc' = "done" /\ required' = None
       ELSE tpc' = "classify" /\ UNCHANGED required
    /\ UNCHANGED <<line, task, header_end, notTok>>

\* The loop over the remaining tokens; Some(required).
TokClassify ==
    /\ tpc = "classify"
    /\ required' = Some(RequiredOf(Tail(parts)))
    /\ tpc' = "done"
    /\ UNCHANGED <<line, task, header_end, parts, notTok>>

NextTok ==
    \/ TokHeader
    \/ TokSplit
    \/ TokClassify

SpecTok == InitTok /\ [][NextTok]_vars

(***************************************************************************)
(* Tokenizer: the claims                                                   *)
(***************************************************************************)
\* The number of backslashes that end s[1..j].
RECURSIVE BackslashRun(_, _)
BackslashRun(s, j) ==
    IF j >= 1 /\ s[j] = "\\" THEN 1 + BackslashRun(s, j - 1) ELSE 0

\* The position that closes the quote opened at i: the first later occurrence
\* of the same quote character that an even number of backslashes precedes;
\* 0 when the quote is never closed.
QuoteClose(s, i) ==
    LET closers == {j \in (i + 1)..Len(s) :
                       s[j] = s[i] /\ BackslashRun(SubSeq(s, i + 1, j - 1), j - 1 - i) % 2 = 0}
    IN  IF closers = {} THEN 0 ELSE CHOOSE j \in closers : \A k \in closers : j <= k

RECURSIVE OutsideFrom(_, _, _, _, _)
\* The positions of s, from i on, that lie outside every quote and every
\* bracket; p, b and c count the open (), [] and {}.
OutsideFrom(s, i, p, b, c) ==
    IF i > Len(s) THEN {}
    ELSE LET here == IF p = 0 /\ b = 0 /\ c = 0 THEN {i} ELSE {}
         IN  IF s[i] \in {"'", "\"", Backtick}
             THEN here \cup (IF QuoteClose(s, i) = 0 THEN {}
                             ELSE OutsideFrom(s, QuoteClose(s, i) + 1, p, b, c))
             ELSE here \cup OutsideFrom(s, i + 1,
                     IF s[i] = "(" THEN p + 1 ELSE IF s[i] = ")" /\ p > 0 THEN p - 1 ELSE p,
                     IF s[i] = "[" THEN b + 1 ELSE IF s[i] = "]" /\ b > 0 THEN b - 1 ELSE b,
                     IF s[i] = "{" THEN c + 1 ELSE IF s[i] = "}" /\ c > 0 THEN c - 1 ELSE c)

Outside(s) == OutsideFrom(s, 1, 0, 0, 0)

\* The first colon of s outside quotes and brackets; 0 when there is none.
OutsideColon(s) ==
    LET colons == {i \in Outside(s) : s[i] = ":"}
    IN  IF colons = {} THEN 0 ELSE CHOOSE i \in colons : \A k \in colons : i <= k

\* The separators of s: its whitespace outside quotes and brackets.
Separators(s) == {i \in Outside(s) : IsWhitespace(s[i])}

RECURSIVE RunsFrom(_, _, _)
\* The maximal runs of s, from i on, that hold no separator.
RunsFrom(s, i, seps) ==
    IF i > Len(s) THEN <<>>
    ELSE IF i \in seps THEN RunsFrom(s, i + 1, seps)
    ELSE LET ends == {j \in i..Len(s) : j + 1 > Len(s) \/ (j + 1) \in seps}
             j == CHOOSE e \in ends : \A k \in ends : e <= k
         IN  <<SubSeq(s, i, j)>> \o RunsFrom(s, j + 1, seps)

OutsideTokens(s) == RunsFrom(s, 1, Separators(s))

\* The first token of the part of the line before its colon; <<>> when the
\* line has no such colon or nothing before it.
FirstToken(h) ==
    LET end == OutsideColon(h)
        toks == OutsideTokens(SubSeq(h, 1, end - 1))
    IN  IF end = 0 \/ toks = <<>> THEN <<>> ELSE toks[1]

\* C6 as stated: a header whose first token is not the requested name
\* yields "no match".
C6_AsClaimed ==
    (tpc = "done" /\ FirstToken(line) # task) => required = None

\* C6, amended: a header whose first token, its leading @ characters
\* removed, is not the requested name yields "no match", whatever the rest
\* of the line holds.
C6_Theorem ==
    (tpc = "done" /\ TrimStartMatches(FirstToken(line), {"@"}) # task)
        => required = None

\* "No match" was returned for a header that names another task and holds
\* a quote and a colon.
C6_Witness ==
    /\ tpc = "done" /\ required = None
    /\ OutsideColon(line) # 0
    /\ TrimStartMatches(FirstToken(line), {"@"}) \notin {task, <<>>}
    /\ \E i \in 1..Len(line) : line[i] \in {"'", "\"", Backtick}

Deploy ==
    <<"d", "e", "p", "l", "o", "y", " ", "E", "N", "V", "=", "'", "p", "r", "o",
      "d", ":", "b", "l", "u", "e", "'", " ", "T", "A", "R", "G", "E", "T", ":",
      " ", "b", "u", "i", "l", "d">>

\* C10: the header ends at the first colon outside quotes and brackets
\* (none: no header); its tokens are the runs between whitespace outside
\* quotes and brackets; a token counts as defaulted by = exactly when it
\* holds a = outside quotes and brackets; and the header
\* deploy ENV='prod:blue' TARGET: yields exactly [TARGET].
C10_Theorem ==
    /\ (tpc # "start" /\ ~NotAHeader) => header_end = OutsideColon(trimmed)
    /\ tpc \in {"classify", "done"} /\ parts # <<>> =>
          /\ parts = OutsideTokens(left)
          /\ \A i \in 1..Len(parts) :
                LET token == TrimEndMatches(parts[i], {","})
                IN  has_top_level_char(token, "=")
                       <=> \E k \in Outside(token) : token[k] = "="
    /\ (tpc = "done" /\ line = Deploy) =>
          required = Some(<< <<"T", "A", "R", "G", "E", "T">> >>)

\* The header with a colon and a space inside quotes was tokenized.
C10_Witness ==
    /\ tpc = "done" /\ line = Deploy /\ required.kind = "some"
    /\ header_end > 17

\* An enumerated header, with a quoted colon before the colon that ends it,
\* matched the task.
C10_WitnessEnumerated ==
    /\ tpc = "done" /\ required.kind = "some" /\ Len(line) <= MaxLineLen
    /\ \E i \in 1..(header_end - 1) : trimmed[i] = ":"

(***************************************************************************)
(* Execution ledger (src/history.rs)                                       *)
(*                                                                         *)
(* A path is a sequence of components; a text is a sequence of             *)
(* one-character strings, except that the key of a JSON member is kept     *)
(* as one symbol.  Of the fields of HistoryRecord the model keeps v, ts,   *)
(* cmd, exit_code and target: cwd is a String like cmd, duration_ms a      *)
(* number like exit_code, and engine, file, hostname and user are          *)
(* optional members like target.                                           *)
(***************************************************************************)
\* Calls started by all processes together.
MaxCalls == 3
\* I/O failures the environment produces in one behaviour.
MaxFaults == 1
\* Records a location holds when a merged read starts.
MaxStored == 2

Procs == {"p1", "p2"}

HistoryRecord(ts, cmd, exit_code, target) ==
    [v |-> 1, ts |-> ts, cmd |-> cmd, exit_code |-> exit_code, target |-> target]

StoredRecord(raw, record) == [raw |-> raw, record |-> record]

\* io::Result of the ledger operations.
IoOk(records) == [kind |-> "ok", error |-> "", records |-> records]
IoErr(error) == [kind |-> "err", error |-> error, records |-> <<>>]

\* history_path_candidates(xdg_state_home, home)
history_path_candidates(xdg_state_home, home) ==
    LET a == IF xdg_state_home.kind = "some"
             THEN <<xdg_state_home.args \o <<"rt", "history.jsonl">>>>
             ELSE <<>>
        b == IF home.kind = "some"
             THEN <<home.args \o <<".local", "state", "rt", "history.jsonl">>,
                    home.args \o <<".rt", "history.jsonl">>>>
             ELSE <<>>
    IN  IF a \o b = <<>> THEN <<<<".rt", "history.jsonl">>>> ELSE a \o b

\* The values XDG_STATE_HOME and HOME take.
XdgChoices == {None, Some(<<"s">>)}
HomeChoices == {None, Some(<<"h">>)}

\* default_history_paths()
default_history_paths == history_path_candidates(env.xdg, env.home)

AllPaths ==
    UNION {Range(history_path_candidates(x, h)) : x \in XdgChoices, h \in HomeChoices}

(* ---- serde_json::to_string(&HistoryRecord) ---- *)
Quote == "\""
Backslash == "\\"
Newline == "\n"
\* A byte that occurs in no UTF-8 text.
InvalidUtf8 == "0xFF"

\* String::from_utf8 of the bytes of a line succeeds.
Decodes(text) == \A i \in 1..Len(text) : text[i] # InvalidUtf8

\* The escape of one character inside a JSON string.
EscapeChar(c) ==
    CASE c = Quote -> <<Backslash, Quote>>
      [] c = Backslash -> <<Backslash, Backslash>>
      [] c = Newline -> <<Backslash, "n">>
      [] OTHER -> <<c>>

RECURSIVE Escape(_)
Escape(s) == IF s = <<>> THEN <<>> ELSE EscapeChar(Head(s)) \o Escape(Tail(s))

JsonString(s) == <<Quote>> \o Escape(s) \o <<Quote>>
\* The key of a member, with its quotes and its colon, is one symbol.
JsonKey(k) == <<k>>

DigitChars == <<"0", "1", "2", "3", "4", "5", "6", "7", "8", "9">>
JsonNumber(n) ==
    IF n < 0 THEN <<"-", DigitChars[1 - n]>> ELSE <<DigitChars[n + 1]>>

\* The members in the order of the struct; a None target is skipped
\* (skip_serializing_if = "Option::is_none").
to_string(record) ==
    <<"{">> \o JsonKey("\"v\":") \o JsonNumber(record.v)
        \o <<",">> \o JsonKey("\"ts\":") \o JsonString(record.ts)
        \o <<",">> \o JsonKey("\"cmd\":") \o JsonString(record.cmd)
        \o <<",">> \o JsonKey("\"exit\":") \o JsonNumber(record.exit_code)
        \o (IF record.target.kind = "some"
            THEN <<",">> \o JsonKey("\"target\":") \o JsonString(record.target.args)
            ELSE <<>>)
        \o <<"}">>

(* ---- serde_json::from_str::<HistoryRecord>(&line) ---- *)
Parsed(ok, value, next) == [ok |-> ok, value |-> value, next |-> next]
NoParse == Parsed(FALSE, <<>>, 0)

\* The body of a JSON string from position i, up to its closing quote.
RECURSIVE StringBody(_, _, _)
StringBody(s, i, acc) ==
    IF i > Len(s) THEN NoParse
    ELSE IF s[i] = Quote THEN Parsed(TRUE, acc, i + 1)
    ELSE IF s[i] = Backslash
         THEN IF i + 1 > Len(s) THEN NoParse
              ELSE IF s[i + 1] \in {Quote, Backslash}
                   THEN StringBody(s, i + 2, Append(acc, s[i + 1]))
              ELSE IF s[i + 1] = "n"
                   THEN StringBody(s, i + 2, Append(acc, Newline))
              ELSE NoParse
    ELSE IF s[i] = Newline THEN NoParse
    ELSE StringBody(s, i + 1, Append(acc, s[i]))

ParseString(s, i) ==
    IF i <= Len(s) /\ s[i] = Quote THEN StringBody(s, i + 1, <<>>) ELSE NoParse

DigitOf(c) == CHOOSE n \in 0..9 : DigitChars[n + 1] = c

ParseNumber(s, i) ==
    IF i <= Len(s) /\ s[i] \in Range(DigitChars)
    THEN Parsed(TRUE, DigitOf(s[i]), i + 1)
    ELSE IF i + 1 <= Len(s) /\ s[i] = "-" /\ s[i + 1] \in Range(DigitChars)
         THEN Parsed(TRUE, 0 - DigitOf(s[i + 1]), i + 2)
    ELSE NoParse

\* The text from position i starts with toks.
Expect(s, i, toks) ==
    /\ i + Len(toks) - 1 <= Len(s)
    /\ SubSeq(s, i, i + Len(toks) - 1) = toks

\* The lines this program writes are the only JSON there is in a ledger;
\* from_str accepts exactly those (anything glued to or cut from one of
\* them is a syntax error, trailing characters included).
from_str(s) ==
    LET open == <<"{">> \o JsonKey("\"v\":")
        v == ParseNumber(s, Len(open) + 1)
        k_ts == <<",">> \o JsonKey("\"ts\":")
        ts == ParseString(s, v.next + Len(k_ts))
        k_cmd == <<",">> \o JsonKey("\"cmd\":")
        cmd == ParseString(s, ts.next + Len(k_cmd))
        k_exit == <<",">> \o JsonKey("\"exit\":")
        exit == ParseNumber(s, cmd.next + Len(k_exit))
        k_target == <<",">> \o JsonKey("\"target\":")
        target == ParseString(s, exit.next + Len(k_target))
    IN  IF ~Expect(s, 1, open) \/ ~v.ok \/ v.value \notin 0..9 THEN NoParse
        ELSE IF ~Expect(s, v.next, k_ts) \/ ~ts.ok THEN NoParse
        ELSE IF ~Expect(s, ts.next, k_cmd) \/ ~cmd.ok THEN NoParse
        ELSE IF ~Expect(s, cmd.next, k_exit) \/ ~exit.ok THEN NoParse
        ELSE IF exit.next = Len(s) /\ s[exit.next] = "}"
             THEN Parsed(TRUE, [v |-> v.value, ts |-> ts.value, cmd |-> cmd.value,
                                exit_code |-> exit.value, target |-> None], 0)
        ELSE IF ~Expect(s, exit.next, k_target) \/ ~target.ok THEN NoParse
        ELSE IF target.next = Len(s) /\ s[target.next] = "}"
             THEN Parsed(TRUE, [v |-> v.value, ts |-> ts.value, cmd |-> cmd.value,
                                exit_code |-> exit.value,
                                target |-> Some(target.value)], 0)
        ELSE NoParse

\* BufRead::lines: the text between newlines, and what follows the last one
\* when that is not empty.
Ends(content) == {i \in 1..Len(content) : content[i] = Newline}

\* The position of the k-th newline, given the positions of all of them:
\* 0 for k = 0, one past the end (len + 1) when the text has fewer.
EndOf(ends, len, k) ==
    IF k = 0 THEN 0
    ELSE IF k > Cardinality(ends) THEN len + 1
    ELSE CHOOSE i \in ends : Cardinality({j \in ends : j <= i}) = k

Lines(content) ==
    LET ends == Ends(content)
        len == Len(content)
        n == Cardinality(ends)
        open == EndOf(ends, len, n) < len
    IN  [k \in 1..(IF open THEN n + 1 ELSE n) |->
            SubSeq(content, EndOf(ends, len, k - 1) + 1, EndOf(ends, len, k) - 1)]

\* The loop of HistoryStore::read_all over the lines of the file.
RECURSIVE RecordsOf(_)
RecordsOf(lines) ==
    IF lines = <<>> THEN <<>>
    ELSE LET l == Head(lines)
             p == from_str(l)
         IN  IF Trim(l) = <<>> \/ ~p.ok THEN RecordsOf(Tail(lines))
             ELSE <<StoredRecord(l, p.value)>> \o RecordsOf(Tail(lines))

(* ---- OffsetDateTime::parse(&ts, &Rfc3339) and the comparator ---- *)
\* A timestamp of the model is an hour and an offset: <<h, "Z">>,
\* <<h, "+", o>> or <<h, "-", o>> stand for ..Th:00:00Z, ..Th:00:00+0o:00
\* and ..Th:00:00-0o:00 of one day.  A parsed OffsetDateTime is compared by
\* its instant, the hour at offset zero.
ParseRfc3339(ts) ==
    IF Len(ts) = 2 /\ ts[1] \in Range(DigitChars) /\ ts[2] = "Z"
    THEN Parsed(TRUE, DigitOf(ts[1]), 0)
    ELSE IF Len(ts) = 3 /\ ts[1] \in Range(DigitChars) /\ ts[2] \in {"+", "-"}
                        /\ ts[3] \in Range(DigitChars)
         THEN Parsed(TRUE, IF ts[2] = "+" THEN DigitOf(ts[1]) - DigitOf(ts[3])
                                          ELSE DigitOf(ts[1]) + DigitOf(ts[3]), 0)
    ELSE NoParse

\* The code point of a character of a timestamp.
CharCode(c) ==
    CASE c = "+" -> 43 [] c = "-" -> 45 [] c = "Z" -> 90 [] c = "x" -> 120
      [] c \in Range(DigitChars) -> 48 + DigitOf(c)
      [] OTHER -> 97

\* str::cmp: "Less", "Equal" or "Greater".
RECURSIVE StrCmp(_, _)
StrCmp(a, b) ==
    IF a = <<>> /\ b = <<>> THEN "Equal"
    ELSE IF a = <<>> THEN "Less"
    ELSE IF b = <<>> THEN "Greater"
    ELSE IF CharCode(Head(a)) < CharCode(Head(b)) THEN "Less"
    ELSE IF CharCode(Head(a)) > CharCode(Head(b)) THEN "Greater"
    ELSE StrCmp(Tail(a), Tail(b))

IntCmp(a, b) == IF a < b THEN "Less" ELSE IF a > b THEN "Greater" ELSE "Equal"

\* The comparator that orders by the text of the timestamp alone.
Compare_Lexical(a, b) == StrCmp(a.record.ts, b.record.ts)

\* The closure handed to sort_by in read_from_paths.
Compare(a, b) ==
    LET a_ts == ParseRfc3339(a.record.ts)
        b_ts == ParseRfc3339(b.record.ts)
    IN  IF a_ts.ok /\ b_ts.ok THEN IntCmp(a_ts.value, b_ts.value)
        ELSE IF a_ts.ok THEN "Less"
        ELSE IF b_ts.ok THEN "Greater"
        ELSE StrCmp(a.record.ts, b.record.ts)

\* slice::sort_by is a stable sort: x goes after every element that does
\* not compare greater than it.
RECURSIVE InsertSorted(_, _)
InsertSorted(sorted, x) ==
    IF sorted = <<>> THEN <<x>>
    ELSE IF Compare(x, Head(sorted)) = "Less" THEN <<x>> \o sorted
    ELSE <<Head(sorted)>> \o InsertSorted(Tail(sorted), x)

RECURSIVE SortFrom(_, _)
SortFrom(sorted, rest) ==
    IF rest = <<>> THEN sorted
    ELSE SortFrom(InsertSorted(sorted, Head(rest)), Tail(rest))

sort_by(records) == SortFrom(<<>>, records)

(* ---- the processes ---- *)
\* The record of the k-th call: its timestamp is the time of the call; the
\* command is plain text or text that needs every escape, with and without
\* a target.
RecordOfCall(k) ==
    HistoryRecord(<<DigitChars[k + 1], "Z">>,
                  IF k % 2 = 1 THEN <<"a">> ELSE <<Quote, Backslash, Newline>>,
                  IF k % 2 = 1 THEN 0 ELSE 0 - 1,
                  IF k % 2 = 1 THEN None ELSE Some(<<"a">>))

NoRecord == HistoryRecord(<<>>, <<>>, 0, None)

\* A process outside any call.
Idle ==
    [pc |-> "idle", op |-> "", paths |-> <<>>, idx |-> 0, record |-> NoRecord,
     last_error |-> "", all_records |-> <<>>, tried |-> <<>>]

\* One store.append(record) of a call that failed: where, at which step, how.
Attempt(path, step, error) == [path |-> path, step |-> step, error |-> error]

\* A call that returned.
Call(op, record, paths, tried, ret) ==
    [op |-> op, record |-> record, paths |-> paths, tried |-> tried, ret |-> ret]

\* The candidate the loop of the call stands at.
Path(p) == proc[p].paths[proc[p].idx]

MissingFile == [kind |-> "missing", content |-> <<>>]
Directory == [kind |-> "dir", content |-> <<>>]
RegularFile(content) == [kind |-> "file", content |-> content]

\* The environment fails an I/O operation.
Fault == faults < MaxFaults /\ faults' = faults + 1

\* The lock of path is granted when no open file holds it.
Free(held, path) == \A q \in Procs : <<q, path>> \notin held

\* A File that is dropped without releasing its lock.
DropFile_Leak(held, p, path) == held

\* Dropping `file` closes it, which releases the lock it may hold.
DropFile(held, p, path) == held \ {<<p, path>>}

\* No error kind is returned at once.
Propagates_Never(kind) == FALSE

\* append_record_default returns this error at once, without trying the
\* candidates that remain.
Propagates(kind) == kind = "WouldBlock"

\* The call of p returns ret.
Return(p, ret, tried) ==
    /\ hist' = [hist EXCEPT ![p] =
                   Append(@, Call(proc[p].op, proc[p].record, proc[p].paths,
                                  tried, ret))]
    /\ proc' = [proc EXCEPT ![p] = Idle]

\* A failure of store.append that is swallowed: the call returns Ok.
StoreFails_Swallowed(p, step, kind) ==
    /\ locks' = DropFile(locks, p, Path(p))
    /\ Return(p, IoOk(<<>>), proc[p].tried)

\* store.append(record) fails at step with an error of the given kind: the
\* `?` returns, `file` is dropped, and append_record_default matches on it.
StoreFails(p, step, kind) ==
    LET t == Append(proc[p].tried, Attempt(Path(p), step, kind))
    IN  /\ locks' = DropFile(locks, p, Path(p))
        /\ IF Propagates(kind) THEN Return(p, IoErr(kind), t)
           ELSE IF proc[p].idx < Len(proc[p].paths)
                THEN /\ proc' = [proc EXCEPT ![p].pc = "open",
                                             ![p].idx = @ + 1,
                                             ![p].last_error = kind,
                                             ![p].tried = t]
                     /\ UNCHANGED hist
           ELSE Return(p, IoErr(kind), t)

\* A process outside any call may start one.  The processes run the same
\* program, so the one that calls first is named p1.
CanCall(p) ==
    /\ proc[p].pc = "idle"
    /\ ncalls < MaxCalls
    /\ p # "p1" => ncalls > 0

\* append_default / append_shell_default: the record is built and
\* append_record_default starts on the first candidate.
AppendDefault(p) ==
    /\ CanCall(p)
    /\ proc' = [proc EXCEPT ![p] =
                   [Idle EXCEPT !.pc = "open", !.op = "append",
                                !.paths = default_history_paths,
                                !.idx = 1, !.record = RecordOfCall(ncalls + 1)]]
    /\ ncalls' = ncalls + 1
    /\ UNCHANGED <<env, fs, locks, hist, faults, notLedger>>

\* fs::create_dir_all(parent)? fails.
CreateDirAllFails(p) ==
    /\ proc[p].pc = "open"
    /\ Fault
    /\ StoreFails(p, "mkdir", "other")
    /\ UNCHANGED <<env, fs, ncalls, notLedger>>

\* The directory is there and the open fails.
OpenFails(p) ==
    /\ proc[p].pc = "open"
    /\ Fault
    /\ StoreFails(p, "open", "other")
    /\ UNCHANGED <<env, fs, ncalls, notLedger>>

\* The lock taken with a call that waits: no step while another open file
\* holds the lock.
OpenTryLock_Blocking(p) ==
    /\ proc[p].pc = "open"
    /\ Free(locks, Path(p))
    /\ fs' = [fs EXCEPT ![Path(p)] = RegularFile(@.content)]
    /\ locks' = locks \cup {<<p, Path(p)>>}
    /\ proc' = [proc EXCEPT ![p].pc = "write"]
    /\ UNCHANGED <<env, hist, ncalls, faults, notLedger>>

\* fs::create_dir_all(parent)?, which changes no ledger file;
\* OpenOptions::new().create(true).append(true).open(&self.path)?, which
\* creates the file when it is missing; file.try_lock_exclusive()?: granted,
\* or WouldBlock when another open file holds the lock.  No other process
\* can tell a file just created from a missing one, so the three are one
\* step.
OpenTryLock(p) ==
    /\ proc[p].pc = "open"
    /\ fs' = [fs EXCEPT ![Path(p)] = RegularFile(@.content)]
    /\ IF Free(locks, Path(p))
       THEN /\ locks' = locks \cup {<<p, Path(p)>>}
            /\ proc' = [proc EXCEPT ![p].pc = "write"]
            /\ UNCHANGED hist
       ELSE StoreFails(p, "lock", "WouldBlock")
    /\ UNCHANGED <<env, ncalls, faults, notLedger>>

\* The file is open and try_lock_exclusive fails for another reason than
\* contention.
TryLockFails(p) ==
    /\ proc[p].pc = "open"
    /\ Fault
    /\ fs' = [fs EXCEPT ![Path(p)] = RegularFile(@.content)]
    /\ StoreFails(p, "lock", "other")
    /\ UNCHANGED <<env, ncalls, notLedger>>

\* The text written at the start of the file, as by a file opened without
\* the append flag.
WriteJson_Overwrite(p) ==
    /\ proc[p].pc = "write"
    /\ LET json == to_string(proc[p].record)
       IN  fs' = [fs EXCEPT ![Path(p)].content =
                     json \o SubSeq(@, Len(json) + 1, Len(@))]
    /\ proc' = [proc EXCEPT ![p].pc = "newline"]
    /\ UNCHANGED <<env, locks, hist, ncalls, faults, notLedger>>

\* writeln!(file, "{json}")?, first write: the text of the record.
WriteJson(p) ==
    /\ proc[p].pc = "write"
    /\ fs' = [fs EXCEPT ![Path(p)].content = @ \o to_string(proc[p].record)]
    /\ proc' = [proc EXCEPT ![p].pc = "newline"]
    /\ UNCHANGED <<env, locks, hist, ncalls, faults, notLedger>>

\* The write of the text fails, after none or some of it reached the file.
WriteJsonFails(p) ==
    /\ proc[p].pc = "write"
    /\ Fault
    /\ \E k \in {0, 1} :
          fs' = [fs EXCEPT ![Path(p)].content =
                    @ \o SubSeq(to_string(proc[p].record), 1, k)]
    /\ StoreFails(p, "write", "other")
    /\ UNCHANGED <<env, ncalls, notLedger>>

\* writeln!, second write: the newline; then file.flush()?, which does
\* nothing on a File.
WriteNewline(p) ==
    /\ proc[p].pc = "newline"
    /\ fs' = [fs EXCEPT ![Path(p)].content = Append(@, Newline)]
    /\ proc' = [proc EXCEPT ![p].pc = "unlock"]
    /\ UNCHANGED <<env, locks, hist, ncalls, faults, notLedger>>

WriteNewlineFails(p) ==
    /\ proc[p].pc = "newline"
    /\ Fault
    /\ StoreFails(p, "newline", "other")
    /\ UNCHANGED <<env, fs, ncalls, notLedger>>

\* file.unlock()?; Ok(()), which append_record_default returns.
Unlock(p) ==
    /\ proc[p].pc = "unlock"
    /\ locks' = locks \ {<<p, Path(p)>>}
    /\ Return(p, IoOk(<<>>), proc[p].tried)
    /\ UNCHANGED <<env, fs, ncalls, faults, notLedger>>

UnlockFails(p) ==
    /\ proc[p].pc = "unlock"
    /\ Fault
    /\ StoreFails(p, "unlock", "other")
    /\ UNCHANGED <<env, fs, ncalls, notLedger>>

\* The loop of read_from_paths moves to the next path, or to the sort.
Advance(p, last_error, all_records) ==
    proc' = [proc EXCEPT ![p].idx = IF @ < Len(proc[p].paths) THEN @ + 1 ELSE @,
                         ![p].pc = IF proc[p].idx < Len(proc[p].paths)
                                   THEN "read" ELSE "sort",
                         ![p].last_error = last_error,
                         ![p].all_records = all_records]

\* read_default(): read_from_paths(default_history_paths()).
ReadDefault(p) ==
    /\ CanCall(p)
    /\ proc' = [proc EXCEPT ![p] =
                   [Idle EXCEPT !.pc = "read", !.op = "read",
                                !.paths = default_history_paths, !.idx = 1]]
    /\ ncalls' = ncalls + 1
    /\ UNCHANGED <<env, fs, locks, hist, faults, notLedger>>

\* read_from_paths(paths), with the locations in either order.
ReadFromPaths(p) ==
    /\ CanCall(p)
    /\ \E paths \in {default_history_paths,
                     [i \in 1..Len(default_history_paths) |->
                         default_history_paths[Len(default_history_paths) + 1 - i]]} :
          proc' = [proc EXCEPT ![p] =
                      [Idle EXCEPT !.pc = "read", !.op = "read",
                                   !.paths = paths, !.idx = 1]]
    /\ ncalls' = ncalls + 1
    /\ UNCHANGED <<env, fs, locks, hist, faults, notLedger>>

\* store.read_all() of one path: nothing when the path does not exist, an
\* error when it cannot be read as a file or when `line?` meets a line that
\* is not UTF-8, else the records of its lines.
ReadAll(p) ==
    /\ proc[p].pc = "read"
    /\ LET file == fs[Path(p)]
       IN  CASE file.kind = "missing" ->
                  Advance(p, proc[p].last_error, proc[p].all_records)
             [] file.kind = "dir" ->
                  Advance(p, "other", proc[p].all_records)
             [] file.kind = "file" ->
                  IF Decodes(file.content)
                  THEN Advance(p, proc[p].last_error,
                               proc[p].all_records \o RecordsOf(Lines(file.content)))
                  ELSE Advance(p, "InvalidData", proc[p].all_records)
    /\ UNCHANGED <<env, fs, locks, hist, ncalls, faults, notLedger>>

\* The open or a read of an existing file fails.
ReadAllFails(p) ==
    /\ proc[p].pc = "read"
    /\ fs[Path(p)].kind = "file"
    /\ Fault
    /\ Advance(p, "other", proc[p].all_records)
    /\ UNCHANGED <<env, fs, locks, hist, ncalls, notLedger>>

\* The end of a merged read that returns the last error whenever a read
\* failed, whatever the other locations yielded.
ReadReturn_ErrFirst(p) ==
    /\ proc[p].pc = "sort"
    /\ Return(p,
              IF proc[p].last_error # "" THEN IoErr(proc[p].last_error)
              ELSE IoOk(sort_by(proc[p].all_records)),
              <<>>)
    /\ UNCHANGED <<env, fs, locks, ncalls, faults, notLedger>>

\* The end of read_from_paths: the last error when there is no record at
\* all, else the records sorted.
ReadReturn(p) ==
    /\ proc[p].pc = "sort"
    /\ Return(p,
              IF proc[p].all_records = <<>>
              THEN (IF proc[p].last_error = "" THEN IoOk(<<>>)
                    ELSE IoErr(proc[p].last_error))
              ELSE IoOk(sort_by(proc[p].all_records)),
              <<>>)
    /\ UNCHANGED <<env, fs, locks, ncalls, faults, notLedger>>

\* A fresh machine: no ledger file exists.
InitLedger ==
    /\ MainIdle
    /\ ResolveIdle /\ TokIdle
    /\ env \in [xdg : XdgChoices, home : HomeChoices]
    /\ fs = [path \in AllPaths |-> MissingFile]
    /\ locks = {}
    /\ proc = [p \in Procs |-> Idle]
    /\ hist = [p \in Procs |-> <<>>]
    /\ ncalls = 0
    /\ faults = 0

NextLedger ==
    \E p \in Procs :
        \/ AppendDefault(p)
        \/ CreateDirAllFails(p)
        \/ OpenFails(p)
        \/ OpenTryLock(p)
        \/ TryLockFails(p)
        \/ WriteJson(p)
        \/ WriteJsonFails(p)
        \/ WriteNewline(p)
        \/ WriteNewlineFails(p)
        \/ Unlock(p)
        \/ UnlockFails(p)
        \/ ReadDefault(p)
        \/ ReadAll(p)
        \/ ReadAllFails(p)
        \/ ReadReturn(p)

SpecLedger == InitLedger /\ [][NextLedger]_vars

\* The steps of p inside an append call.
InAppend(p) ==
    \/ CreateDirAllFails(p)
    \/ OpenFails(p)
    \/ OpenTryLock(p)
    \/ TryLockFails(p)
    \/ WriteJson(p)
    \/ WriteJsonFails(p)
    \/ WriteNewline(p)
    \/ WriteNewlineFails(p)
    \/ Unlock(p)
    \/ UnlockFails(p)

\* Every process keeps running: a process inside an append call is not
\* stopped for ever.
FairSpecLedger == SpecLedger /\ \A p \in Procs : WF_vars(InAppend(p))

(* ---- a merged read of two locations written earlier ---- *)
\* The timestamps of the stored records: an hour at offset zero, a later
\* hour of the day at an offset that makes it the earlier instant, and two
\* texts that are no timestamp.
StoredTs == {<<"2", "Z">>, <<"3", "+", "2">>, <<"x">>, <<"1">>}

\* The records one location may hold; cmd tells the locations apart.
StoredLists(cmd) ==
    {[i \in 1..Len(f) |-> HistoryRecord(f[i], cmd, 0, None)] :
        f \in SeqsUpTo(StoredTs, MaxStored)}

RECURSIVE Written(_)
Written(records) ==
    IF records = <<>> THEN <<>>
    ELSE to_string(Head(records)) \o <<Newline>> \o Written(Tail(records))

\* The process that reads.
Reader == "p1"

InitMerge ==
    /\ MainIdle
    /\ ResolveIdle /\ TokIdle
    /\ env = [xdg |-> None, home |-> Some(<<"h">>)]
    /\ \E a \in StoredLists(<<"a">>), b \in StoredLists(<<"b">>),
          second \in {"file", "corrupt", "dir", "missing"} :
          /\ second \notin {"file", "corrupt"} => b = <<>>
          /\ second = "corrupt" => Len(b) <= 1
          /\ fs = [path \in AllPaths |->
                     IF path = default_history_paths[1]
                     THEN RegularFile(Written(a))
                     ELSE IF path = default_history_paths[2]
                     THEN (IF second = "file" THEN RegularFile(Written(b))
                           ELSE IF second = "corrupt"
                           THEN RegularFile(Written(b) \o <<InvalidUtf8, Newline>>)
                           ELSE IF second = "dir" THEN Directory ELSE MissingFile)
                     ELSE MissingFile]
    /\ locks = {}
    /\ proc = [p \in Procs |-> Idle]
    /\ hist = [p \in Procs |-> <<>>]
    /\ ncalls = MaxCalls - 1
    /\ faults = 0

NextMerge ==
    \/ ReadFromPaths(Reader)
    \/ ReadAll(Reader)
    \/ ReadAllFails(Reader)
    \/ ReadReturn(Reader)

SpecMerge == InitMerge /\ [][NextMerge]_vars

(***************************************************************************)
(* Claims about the ledger                                                 *)
(***************************************************************************)
\* The calls of p that returned and were appends, or reads.
AppendsOf(p) == {i \in 1..Len(hist[p]) : hist[p][i].op = "append"}
ReadsOf(p) == {i \in 1..Len(hist[p]) : hist[p][i].op = "read"}

\* The failed attempts of a call went through the candidates in order.
InOrder(paths, tried) ==
    /\ Len(tried) <= Len(paths)
    /\ \A k \in 1..Len(tried) : tried[k].path = paths[k]

\* C4, as claimed: when the lock or the write on a candidate fails, append
\* goes on to the next candidate, and lock contention is returned to the
\* caller only after every candidate has been tried.
C4_AsClaimed ==
    \A p \in Procs : \A i \in AppendsOf(p) :
        LET c == hist[p][i]
        IN  /\ \A k \in 1..Len(c.tried) :
                  (c.tried[k].step \in {"lock", "write", "newline"} /\ k < Len(c.paths))
                      => (k < Len(c.tried) \/ c.ret.kind = "ok")
            /\ (c.ret.kind = "err" /\ c.ret.error = "WouldBlock")
                  => Len(c.tried) = Len(c.paths)

\* C4, as the code has it: the candidates are tried in order; after a
\* failure other than lock contention (at any step) append goes on to the
\* next candidate and, when none is left, returns the last error; lock
\* contention is returned to the caller at once, whatever candidates remain.
C4_Theorem ==
    /\ \A p \in Procs : \A i \in AppendsOf(p) :
          LET c == hist[p][i]
              n == Len(c.tried)
          IN  /\ InOrder(c.paths, c.tried)
              /\ \A k \in 1..(n - 1) : c.tried[k].error = "other"
              /\ c.ret.kind = "ok" => n < Len(c.paths)
              /\ c.ret.kind = "err" =>
                    /\ n >= 1
                    /\ c.ret.error = c.tried[n].error
                    /\ \/ c.tried[n].error = "WouldBlock" /\ c.tried[n].step = "lock"
                       \/ c.tried[n].error = "other" /\ n = Len(c.paths)
    /\ \A p \in Procs :
          proc[p].op = "append" =>
              /\ InOrder(proc[p].paths, proc[p].tried)
              /\ Len(proc[p].tried) = proc[p].idx - 1
              /\ \A k \in 1..Len(proc[p].tried) : proc[p].tried[k].error = "other"

\* Two calls have returned: one went on to a later candidate after the lock
\* or the write failed on an earlier one and succeeded there; one met lock
\* contention on a candidate that was not the last and returned the error.
C4_Witness ==
    /\ \E p \in Procs : \E i \in AppendsOf(p) :
          /\ hist[p][i].ret.kind = "ok"
          /\ Len(hist[p][i].tried) >= 1
          /\ hist[p][i].tried[1].step \in {"lock", "write", "newline"}
    /\ \E p \in Procs : \E i \in AppendsOf(p) :
          /\ hist[p][i].ret.error = "WouldBlock"
          /\ Len(hist[p][i].tried) < Len(hist[p][i].paths)

Holders(path) == {p \in Procs : <<p, path>> \in locks}

\* C5: at most one process holds the exclusive lock of a ledger file; a
\* process holds a lock only inside an append call, between the acquire and
\* the release, and only that of the candidate it is writing to; a process
\* whose call has returned, with Ok or with any error, holds none.
C5_Theorem ==
    /\ \A path \in AllPaths : Cardinality(Holders(path)) <= 1
    /\ \A p \in Procs : \A path \in AllPaths :
          <<p, path>> \in locks =>
              /\ proc[p].op = "append"
              /\ proc[p].pc \in {"write", "newline", "unlock"}
              /\ path = Path(p)

\* A process holds the lock of a file while another process is outside any
\* call, back from an append that failed on that file after it had acquired
\* the lock.
C5_Witness ==
    \E p \in Procs, q \in Procs, path \in AllPaths :
        /\ p # q
        /\ <<q, path>> \in locks
        /\ proc[p].pc = "idle"
        /\ \E i \in AppendsOf(p) : \E k \in 1..Len(hist[p][i].tried) :
              /\ hist[p][i].tried[k].path = path
              /\ hist[p][i].tried[k].step \in {"write", "newline", "unlock"}

\* Only p has ever called the ledger.
Alone(p) == \A q \in Procs \ {p} : hist[q] = <<>> /\ proc[q].pc = "idle"

\* C7, as claimed: with one process and one location, a read that follows
\* a successful append(r) returns a record equal to r in every field.
C7_AsClaimed ==
    \A p \in Procs :
        Alone(p) =>
            \A i \in AppendsOf(p), j \in ReadsOf(p) :
                (/\ i < j
                 /\ Len(hist[p][i].paths) = 1
                 /\ hist[p][i].ret.kind = "ok"
                 /\ hist[p][j].ret.kind = "ok")
                    => \E k \in 1..Len(hist[p][j].ret.records) :
                          hist[p][j].ret.records[k].record = hist[p][i].record

\* What the locations of a read hold that can be read, location after
\* location.
RECURSIVE Expected(_)
Expected(paths) ==
    IF paths = <<>> THEN <<>>
    ELSE (IF fs[Head(paths)].kind = "file" /\ Decodes(fs[Head(paths)].content)
          THEN RecordsOf(Lines(fs[Head(paths)].content)) ELSE <<>>)
         \o Expected(Tail(paths))

Count(x, seq) == Cardinality({k \in 1..Len(seq) : seq[k] = x})
SameBag(a, b) == \A x \in Range(a) \cup Range(b) : Count(x, a) = Count(x, b)

\* a may stand before b: both timestamps parse and a's instant is not the
\* later one; or only a's parses; or neither does and a's text is not the
\* greater one.
MayPrecede(a, b) ==
    LET a_ts == ParseRfc3339(a.record.ts)
        b_ts == ParseRfc3339(b.record.ts)
    IN  \/ a_ts.ok /\ b_ts.ok /\ a_ts.value <= b_ts.value
        \/ a_ts.ok /\ ~b_ts.ok
        \/ ~a_ts.ok /\ ~b_ts.ok /\ StrCmp(a.record.ts, b.record.ts) # "Greater"

Ordered(records) ==
    \A i \in 1..Len(records), j \in 1..Len(records) :
        i < j => MayPrecede(records[i], records[j])

\* C8: a merged read that returns records returns them ordered by instant,
\* the records without a parseable timestamp last and in the order of their
\* text, in whichever order the locations were read; when no read failed it
\* returns exactly the records of the lines that deserialize, of every
\* location.
C8_Theorem ==
    \A i \in ReadsOf(Reader) :
        LET c == hist[Reader][i]
        IN  /\ c.ret.kind = "ok" =>
                  /\ Ordered(c.ret.records)
                  /\ \A k \in 1..Len(c.ret.records) :
                        Count(c.ret.records[k], c.ret.records)
                            <= Count(c.ret.records[k], Expected(c.paths))
            /\ (faults = 0 /\ Expected(c.paths) # <<>>) =>
                  c.ret.kind = "ok" /\ SameBag(c.ret.records, Expected(c.paths))

\* A merged read returned the records of both locations in another order
\* than the files hold them: one without a parseable timestamp, one whose
\* timestamp is the greater text and the earlier instant, and two of one
\* timestamp from different locations; the second location was read first.
C8_Witness ==
    \E i \in ReadsOf(Reader) :
        LET c == hist[Reader][i]
            r == c.ret.records
        IN  /\ c.ret.kind = "ok"
            /\ c.paths[1] = default_history_paths[2]
            /\ r # Expected(c.paths)
            /\ \E k \in 1..Len(r) : ~ParseRfc3339(r[k].record.ts).ok
            /\ \E k \in 1..Len(r), m \in 1..Len(r) :
                  /\ k < m
                  /\ r[k].record.ts = <<"3", "+", "2">>
                  /\ r[m].record.ts = <<"2", "Z">>
            /\ \E k \in 1..Len(r), m \in 1..Len(r) :
                  /\ r[k].record.ts = r[m].record.ts
                  /\ r[k].record.cmd = <<"a">>
                  /\ r[m].record.cmd = <<"b">>

\* seg is a run of consecutive characters of content.
Contains(content, seg) ==
    \E i \in 1..(Len(content) - Len(seg) + 1) :
        SubSeq(content, i, i + Len(seg) - 1) = seg

\* The line append writes for a record.
LineOf(record) == to_string(record) \o <<Newline>>

\* C11: an append call that returned Ok has written the text of its record
\* and the newline to the candidate it stopped at; a call in which every
\* candidate it tried failed returned an error, the error of the last one.
C11_Theorem ==
    \A p \in Procs : \A i \in AppendsOf(p) :
        LET c == hist[p][i]
            n == Len(c.tried)
        IN  /\ c.ret.kind \in {"ok", "err"}
            /\ c.ret.kind = "ok" =>
                  /\ n < Len(c.paths)
                  /\ fs[c.paths[n + 1]].kind = "file"
                  /\ Contains(fs[c.paths[n + 1]].content, LineOf(c.record))
            /\ c.ret.kind = "err" =>
                  /\ n >= 1
                  /\ \A k \in 1..n : c.tried[k].error # ""
                  /\ c.ret.error = c.tried[n].error

\* One append has returned an error after its only candidate failed, and a
\* later one has returned Ok with its line in the file.
C11_Witness ==
    \E p \in Procs : \E i \in AppendsOf(p), j \in AppendsOf(p) :
        /\ hist[p][i].ret.kind = "err"
        /\ Len(hist[p][i].tried) = Len(hist[p][i].paths)
        /\ hist[p][j].ret.kind = "ok"
        /\ Contains(fs[hist[p][j].paths[1]].content, LineOf(hist[p][j].record))

Busy(p) == proc[p].pc # "idle"

Appending(p) == Busy(p) /\ proc[p].op = "append"

\* p is about to take the lock of a file whose lock another process holds.
Contended(p) == proc[p].pc = "open" /\ ~Free(locks, Path(p))

\* C12: every append call eventually returns; a process that is about to take the
\* lock can always take its step, whoever holds the lock; and its step,
\* when another process holds the lock, ends the attempt on that candidate
\* with an error.
C12_Theorem ==
    /\ \A p \in Procs : Appending(p) ~> ~Busy(p)
    /\ [](\A p \in Procs : proc[p].pc = "open" => ENABLED OpenTryLock(p))
    /\ [][\A p \in Procs :
            (Contended(p) /\ proc'[p] # proc[p]) =>
                \/ /\ ~Busy(p)'
                   /\ hist'[p][Len(hist'[p])].ret.kind = "err"
                \/ /\ Len(proc'[p].tried) = Len(proc[p].tried) + 1
                   /\ proc'[p].tried[Len(proc'[p].tried)].error # ""]_vars

\* A process is back from an append that met lock contention while the
\* other process still holds the lock.
C12_Witness ==
    \E p \in Procs, q \in Procs :
        /\ ~Busy(p)
        /\ \E i \in AppendsOf(p) : hist[p][i].ret.error = "WouldBlock"
        /\ \E path \in AllPaths : <<q, path>> \in locks

Extends(new, old) ==
    Len(old) <= Len(new) /\ SubSeq(new, 1, Len(old)) = old

Suffix(content, n) == SubSeq(content, Len(content) - n + 1, Len(content))

Newlines(text) == Cardinality({i \in 1..Len(text) : text[i] = Newline})

\* p returns Ok from an append in this step.
AppendOk(p) ==
    /\ proc[p].op = "append"
    /\ Len(hist'[p]) = Len(hist[p]) + 1
    /\ hist'[p][Len(hist'[p])].ret.kind = "ok"

\* C13: in every step each ledger file stays a file and its content extends
\* its content before the step; what a step adds is added by the process
\* that holds the lock of the file, and is the text of its record (or the
\* start of it, when the write fails) or the newline after it; and a call
\* that returns Ok leaves the file ending with the line of its record, which
\* holds one newline, at its end. A read changes no file.
C13_Theorem ==
    [][/\ \A path \in AllPaths :
            LET old == fs[path]
                new == fs'[path]
            IN  /\ old.kind = "missing" => new \in {MissingFile, RegularFile(<<>>)}
                /\ old.kind = "file" =>
                      /\ new.kind = "file"
                      /\ Extends(new.content, old.content)
                      /\ new.content # old.content =>
                            \E p \in Procs :
                               LET added == Suffix(new.content, Len(new.content) - Len(old.content))
                                   json == to_string(proc[p].record)
                               IN  /\ <<p, path>> \in locks
                                   /\ Path(p) = path
                                   /\ proc[p].pc = "write" => Extends(json, added)
                                   /\ proc[p].pc = "newline" => added = <<Newline>>
                                   /\ proc[p].pc \in {"write", "newline"}
       /\ \A p \in Procs :
            AppendOk(p) =>
               LET written == LineOf(proc[p].record)
                   content == fs'[Path(p)].content
               IN  /\ Len(content) >= Len(written)
                   /\ Suffix(content, Len(written)) = written
                   /\ Newlines(written) = 1
       /\ \A p \in Procs : proc[p].op = "read" /\ proc'[p] # proc[p] => fs' = fs
      ]_vars

\* A second line has been added after a first one: both processes are back
\* from an append that returned Ok to the same file.
C13_Witness ==
    \E path \in AllPaths :
        /\ fs[path].kind = "file"
        /\ Newlines(fs[path].content) >= 2
        /\ \E p \in Procs : \E i \in AppendsOf(p) :
              /\ hist[p][i].ret.kind = "ok"
              /\ i > 1
              /\ hist[p][i].paths[Len(hist[p][i].tried) + 1] = path

\* The records whose append to path has returned Ok.
Completed(path) ==
    UNION {{hist[q][i].record : i \in
              {i \in 1..Len(hist[q]) :
                  /\ hist[q][i].op = "append"
                  /\ hist[q][i].ret.kind = "ok"
                  /\ hist[q][i].paths[Len(hist[q][i].tried) + 1] = path}} :
           q \in Procs}

\* p reads the file of its current path in this step, without an error.
ReadsFile(p) ==
    /\ proc[p].pc = "read"
    /\ fs[Path(p)].kind = "file"
    /\ proc'[p] # proc[p]
    /\ faults' = faults

\* The records the read of this step adds to those of the call.
Got(p) ==
    {proc'[p].all_records[k].record :
        k \in (Len(proc[p].all_records) + 1)..Len(proc'[p].all_records)}

\* C14, as claimed: a read of a file takes and releases no lock; and a read
\* made while an append is in progress returns every record whose append to
\* the file had returned Ok before.
C14_AsClaimed ==
    [][\A p \in Procs :
          (ReadsFile(p) /\ \E q \in Procs : Appending(q)) =>
              /\ locks' = locks
              /\ Completed(Path(p)) \subseteq Got(p)]_vars

Visits == EventsOf({"visit"})

\* The imports of visit f whose file was read and recorded a definition of n.
Definers(f, n) ==
    {i \in Calls :
        /\ log[i].fid = f
        /\ i + 1 \in Visits
        /\ \E r \in InsertsOf(n) : log[r].fid = i + 1}

\* Among them, the one declared first.
FirstDeclared(f, n) ==
    CHOOSE i \in Definers(f, n) : \A j \in Definers(f, n) : log[i].idx <= log[j].idx

\* Nothing at the depth of visit f or above it defines n.
NoShallower(f, n) == \A r \in InsertsOf(n) : log[r].depth > log[f].depth

\* Every definition of n one level below visit f comes from a file that f
\* itself imports.
OnlyBelow(f, n) ==
    \A r \in InsertsOf(n) :
        log[r].depth = log[f].depth + 1 =>
            /\ log[r].fid > 1
            /\ log[r].fid - 1 \in Calls
            /\ log[log[r].fid - 1].fid = f

\* The catalog entry of n is a definition of the file import i led to.
EntryFrom(i, n) ==
    /\ CatalogOf(n) # {}
    /\ \A c \in CatalogOf(n) : \E r \in InsertsOf(n) :
          /\ log[r].fid = i + 1
          /\ log[r].depth = log[i].depth + 1
          /\ result.catalog[c].description = log[r].desc

\* Two imports of visit f, declared at different positions, define n.
Siblings(f, n) ==
    \E i, j \in Definers(f, n) : log[i].idx # log[j].idx

\* C15, as claimed: when two imports of one file both define a name and no
\* shallower file defines it, the entry of the name is the definition of
\* the import declared first.
C15_AsClaimed ==
    result.kind = "ok" =>
        \A f \in Visits : \A n \in AllNames :
            (Siblings(f, n) /\ NoShallower(f, n)) => EntryFrom(FirstDeclared(f, n), n)

\* C15, amended: when two imports of one file both define a name, no
\* shallower file defines it and no file imported by another file defines
\* it at that depth, the entry of the name is the definition of the import
\* declared first: no definition from a deeper import and none from an
\* import declared later.  For the imports of the root file the third
\* condition always holds.
C15_Theorem ==
    result.kind = "ok" =>
        \A f \in Visits : \A n \in AllNames :
            /\ (Siblings(f, n) /\ NoShallower(f, n) /\ OnlyBelow(f, n))
                  => EntryFrom(FirstDeclared(f, n), n)
            /\ log[f].depth = 0 => OnlyBelow(f, n)

\* The layout of the unit test was resolved: the root's imports A (declared
\* first, importing C) and B both define x, and so does C, one level deeper.
C15_Witness ==
    /\ result.kind = "ok"
    /\ \E f \in Visits :
          /\ log[f].depth = 0
          /\ Siblings(f, "x") /\ NoShallower(f, "x") /\ OnlyBelow(f, "x")
          /\ \E r \in InsertsOf("x") : log[r].depth = 2
          /\ log[FirstDeclared(f, "x")].path = "A"

\* The insertion at which the surviving definition of n was recorded: the
\* value of ParseState.order at that call of insert.
SurvivorOrder(n) == log[CHOOSE i \in InsertsOf(n) : Wins(i, n)].idx

\* C16: the catalog resolve returns holds each task name at most once, an
\* entry for every name recorded, and its entries stand in ascending order
\* of the insertion at which the surviving definition of each was recorded.
C16_Theorem ==
    result.kind = "ok" =>
        /\ \A c, d \in 1..Len(result.catalog) :
              result.catalog[c].name = result.catalog[d].name => c = d
        /\ \A c \in 1..Len(result.catalog) : InsertsOf(result.catalog[c].name) # {}
        /\ \A c, d \in 1..Len(result.catalog) :
              c < d => SurvivorOrder(result.catalog[c].name)
                          < SurvivorOrder(result.catalog[d].name)

\* A catalog was returned in which the name listed second was recorded
\* first of all, in a definition that did not survive, before any definition
\* of the name listed first.
C16_Witness ==
    /\ result.kind = "ok"
    /\ Len(result.catalog) >= 2
    /\ \E i \in InsertsOf(result.catalog[2].name) :
          \A j \in InsertsOf(result.catalog[1].name) : log[i].idx < log[j].idx

\* The sequence of f(x) for the elements x of s that pass test, in the
\* order of s.
Pick(s, test(_), f(_)) ==
    LET keep == {k \in 1..Len(s) : test(s[k])}
        nth(j) == CHOOSE k \in keep : Cardinality({m \in keep : m <= k}) = j
    IN  [j \in 1..Cardinality(keep) |-> f(s[nth(j)])]

BareOrPlus(raw) ==
    \/ is_valid_identifier(raw)
    \/ raw # <<>> /\ raw[1] = "+" /\ is_valid_identifier(Tail(raw))

PlusStripped(raw) == IF is_valid_identifier(raw) THEN raw ELSE Tail(raw)

\* C17, as claimed: for a matching header the result holds, in header order,
\* exactly the tokens after the name that are an identifier or a + followed
\* by an identifier, without the +.
C17_AsClaimed ==
    (tpc = "done" /\ required.kind = "some") =>
        required.args = Pick(Tail(parts), BareOrPlus, PlusStripped)

\* The token without the commas that end it.
Uncomma(raw) == TrimEndMatches(raw, {","})

\* The token without its leading $, + and * characters.
Unprefixed(raw) == TrimStartMatches(Uncomma(raw), {"$", "+", "*"})

\* A token the result includes.
Included(raw) ==
    LET token == Uncomma(raw)
    IN  /\ token # <<>>
        /\ token[1] # "*"
        /\ ~\E k \in Outside(token) : token[k] = "="
        /\ is_valid_identifier(Unprefixed(raw))

\* C17, amended: for a matching header the result holds, in header order,
\* exactly the tokens after the name that, their trailing commas removed, do
\* not start with *, hold no = outside quotes and brackets and are an
\* identifier once their leading $, + and * characters are removed; each
\* stands in the result as that identifier.  Tokens that start with * and
\* tokens with a top-level = are never in the result, and the tokens passed
\* over leave the order of the others as it is in the header.
C17_Theorem ==
    (tpc = "done" /\ required.kind = "some") =>
        /\ parts # <<>> /\ TrimStartMatches(parts[1], {"@"}) = task
        /\ required.args = Pick(Tail(parts), Included, Unprefixed)
        /\ \A i \in 2..Len(parts) :
              (parts[i][1] = "*" \/ \E k \in Outside(parts[i]) : parts[i][k] = "=")
                  => ~Included(parts[i])

\* A header was classified that holds a plain token, a token starting with
\* *, a token with $ and another name after them: the result is the plain
\* one and the other two names, in that order.
C17_Witness ==
    /\ tpc = "done" /\ required.kind = "some"
    /\ Len(parts) = 4
    /\ parts[2] = <<"a">> /\ parts[3] = <<"*", "a">> /\ parts[4] = <<"$", "b">>
    /\ required.args = << <<"a">>, <<"b">> >>

(***************************************************************************)
(* Required-argument lookup: required_args_for_task over a task file       *)
(***************************************************************************)
ArgsOk(args) == [kind |-> "ok", args |-> args, error |-> ""]
ArgsErr(error) == [kind |-> "err", args |-> <<>>, error |-> error]

\* The lines the task files of the model are made of: headers of a and of
\* b, with and without a parameter, an indented line, a comment, an
\* assignment and a blank line.
FileLines ==
    {<<"a", ":">>, <<"a", " ", "b", ":">>, <<"b", ":">>, <<"@", "b", " ", "a", ":">>,
     <<" ", "a", " ", "b", ":">>, <<"#", " ", "a", ":">>, <<"a", " ", ":", "=">>,
     <<>>}

\* Files of the model hold at most MaxFileLines lines.
MaxFileLines == 2

RECURSIVE Text(_)
\* The text of a file whose lines are ls, each ended by a newline.
Text(ls) == IF ls = <<>> THEN <<>> ELSE ls[1] \o <<Newline>> \o Text(Tail(ls))

TaskFile(text) == [kind |-> "file", text |-> text]
NoTaskFile == [kind |-> "missing", text |-> <<>>]

\* A call required_args_for_task(detection, task).
InitLookup ==
    /\ MainIdle
    /\ ResolveIdle
    /\ LedgerIdle
    /\ line = <<>> /\ tpc = "idle" /\ header_end = 0 /\ parts = <<>>
    /\ required = None
    /\ task \in {<<"a">>, <<"b">>}
    /\ \E runner \in {"justfile", "other"} :
       \E content \in {NoTaskFile} \cup
                      {TaskFile(Text(ls)) : ls \in SeqsUpTo(FileLines, MaxFileLines)} :
          lookup = [NoLookup EXCEPT !.pc = "call", !.runner = runner,
                                    !.content = content]

\* content.lines()
LookupLines == Lines(lookup.content.text)

\* (mutant of NoMatchYet: the loop goes on after a header matched)
NoMatchYet_KeepGoing == tpc = "idle" \/ tpc = "done"

\* parse_required_from_just_header is not running, and did not match.
NoMatchYet == tpc = "idle" \/ (tpc = "done" /\ required.kind = "none")

\* What the header function returned for the lines handed to it so far.
Seen == IF tpc = "done" THEN Append(lookup.seen, required) ELSE lookup.seen

\* required_args_for_task for a runner other than Justfile: Ok(Vec::new()).
RequiredArgsOther ==
    /\ lookup.pc = "call" /\ lookup.runner # "justfile"
    /\ lookup' = [lookup EXCEPT !.pc = "done", !.ret = ArgsOk(<<>>)]
    /\ UNCHANGED <<tvars, notLookup>>

\* std::fs::read_to_string(path)?
ReadToString ==
    /\ lookup.pc = "call" /\ lookup.runner = "justfile"
    /\ lookup' = IF lookup.content.kind = "file"
                 THEN [lookup EXCEPT !.pc = "loop"]
                 ELSE [lookup EXCEPT !.pc = "done", !.ret = ArgsErr("io")]
    /\ UNCHANGED <<tvars, notLookup>>

\* One turn of `for line in content.lines()`: the call of
\* parse_required_from_just_header(line, task).
NextLine ==
    /\ lookup.pc = "loop" /\ NoMatchYet
    /\ lookup.pos < Len(LookupLines)
    /\ lookup' = [lookup EXCEPT !.pos = @ + 1, !.seen = Seen]
    /\ line' = LookupLines[lookup.pos + 1]
    /\ tpc' = "start" /\ header_end' = 0 /\ parts' = <<>> /\ required' = None
    /\ UNCHANGED <<task, notLookup>>

\* `if let Some(required) = .. { return Ok(required) }`
ReturnRequired ==
    /\ lookup.pc = "loop" /\ tpc = "done" /\ required.kind = "some"
    /\ lookup' = [lookup EXCEPT !.pc = "done", !.seen = Seen,
                                !.ret = ArgsOk(required.args)]
    /\ UNCHANGED <<tvars, notLookup>>

\* The loop is over: Ok(Vec::new()).
ReturnEmpty ==
    /\ lookup.pc = "loop" /\ NoMatchYet
    /\ lookup.pos = Len(LookupLines)
    /\ lookup' = [lookup EXCEPT !.pc = "done", !.seen = Seen, !.ret = ArgsOk(<<>>)]
    /\ UNCHANGED <<tvars, notLookup>>

NextLookup ==
    \/ RequiredArgsOther
    \/ ReadToString
    \/ NextLine
    \/ TokHeader
    \/ TokSplit
    \/ TokClassify
    \/ ReturnRequired
    \/ ReturnEmpty

SpecLookup == InitLookup /\ [][NextLookup]_vars

\* The lookup returned after reading the task file.
Looked ==
    /\ lookup.pc = "done"
    /\ lookup.runner = "justfile" /\ lookup.content.kind = "file"

\* No line of the file is a header of the task.
NoHeaderMatched ==
    /\ Len(lookup.seen) = Len(LookupLines)
    /\ \A k \in 1..Len(lookup.seen) : lookup.seen[k] = None

\* A line is a header of the task and declares no required argument.
MatchedZero ==
    /\ lookup.seen # <<>>
    /\ lookup.seen[Len(lookup.seen)] = Some(<<>>)

\* C18, as claimed: the result of the lookup for a task file with no header
\* of the task differs from its result for a header of the task that
\* declares no required argument, which is the empty list of arguments.
C18_AsClaimed ==
    Looked =>
        /\ MatchedZero => lookup.ret = ArgsOk(<<>>)
        /\ NoHeaderMatched => lookup.ret # ArgsOk(<<>>)

\* p reads its current path in this step and no I/O operation fails.
ReadsPath(p) ==
    /\ proc[p].pc = "read"
    /\ proc'[p] # proc[p]
    /\ faults' = faults

\* The records the read of this step adds to those of the call, in order.
Added(p) ==
    SubSeq(proc'[p].all_records, Len(proc[p].all_records) + 1,
           Len(proc'[p].all_records))

\* The line is the text of a record.
Deserializes(l) == Decodes(l) /\ from_str(l).ok

AsStored(l) == StoredRecord(l, from_str(l).value)

\* C19, as claimed: the read of a location that does not exist adds no
\* record and no error; the read of a location that is a file adds no error
\* either, and adds the records of exactly the lines that deserialize, in
\* the order of the file.
C19_AsClaimed ==
    [][\A p \in Procs :
          ReadsPath(p) =>
              LET file == fs[Path(p)]
              IN  /\ file.kind = "missing" =>
                        /\ Added(p) = <<>>
                        /\ proc'[p].last_error = proc[p].last_error
                  /\ file.kind = "file" =>
                        /\ proc'[p].last_error = proc[p].last_error
                        /\ Added(p) = Pick(Lines(file.content), Deserializes, AsStored)
      ]_vars

\* The location cannot be read: a directory, or a file with a line that is
\* not UTF-8.
CannotBeRead(path) ==
    \/ fs[path].kind = "dir"
    \/ fs[path].kind = "file" /\ ~Decodes(fs[path].content)

\* C20: a merged read in which the read of a location failed and another
\* location yielded records returns Ok with the records the readable
\* locations yielded, and nothing else: at its end, whatever made the read
\* fail; and, when no I/O operation failed, for a location that cannot be
\* read beside one that holds records.
C20_Theorem ==
    /\ [][\A p \in Procs :
            (/\ proc[p].pc = "sort" /\ proc'[p] # proc[p]
             /\ proc[p].last_error # "" /\ proc[p].all_records # <<>>) =>
                LET ret == hist'[p][Len(hist'[p])].ret
                IN  /\ ret.kind = "ok"
                    /\ SameBag(ret.records, proc[p].all_records)]_vars
    /\ [](\A i \in ReadsOf(Reader) :
            LET c == hist[Reader][i]
            IN  (/\ faults = 0
                 /\ \E k \in 1..Len(c.paths) : CannotBeRead(c.paths[k])
                 /\ Expected(c.paths) # <<>>) =>
                    /\ c.ret.kind = "ok"
                    /\ SameBag(c.ret.records, Expected(c.paths)))

\* The case of the unit test: a merged read over a directory and a ledger
\* that holds records returned those records.
C20_Witness ==
    \E i \in ReadsOf(Reader) :
        LET c == hist[Reader][i]
        IN  /\ c.ret.kind = "ok"
            /\ c.ret.records # <<>>
            /\ faults = 0
            /\ fs[c.paths[1]].kind = "dir"
            /\ fs[c.paths[2]].kind = "file"

(***************************************************************************)
(* The candidate locations of a default call.                              *)
(***************************************************************************)
\* The sequence s ends with the sequence u.
EndsWith(s, u) ==
    /\ Len(s) >= Len(u)
    /\ \A i \in 1..Len(u) : s[Len(s) - Len(u) + i] = u[i]

\* C21 (as claimed): for every combination of a known or unknown state
\* directory and home directory the candidate list of a default append is
\* not empty, has the state-directory location first when that directory is
\* set, then the two home-relative locations in order when the home is
\* known, and holds the local relative path .rt/history.jsonl whenever no
\* home directory is known.
C21_AsClaimed ==
    \A p \in Procs :
        proc[p].op = "append" =>
            LET c == proc[p].paths
            IN  /\ c # <<>>
                /\ env.xdg.kind = "some" =>
                      c[1] = env.xdg.args \o <<"rt", "history.jsonl">>
                /\ env.home.kind = "some" =>
                      EndsWith(c, <<env.home.args \o <<".local", "state", "rt", "history.jsonl">>,
                                    env.home.args \o <<".rt", "history.jsonl">>>>)
                /\ env.home.kind = "none" => <<".rt", "history.jsonl">> \in Range(c)

(***************************************************************************)
(* Passthrough arguments: collect_passthrough and build_passthrough_plan   *)
(* (src/main.rs)                                                           *)
(***************************************************************************)
\* Required argument names of the task, and command-line passthrough
\* arguments, at most.
MaxRequired == 2
MaxCli == 3

ArgNames == {"ENV", "TARGET"}
CliArgs == {"prod", "--verbose"}
\* What the user types at a prompt.
Typed == {"v"}

PassthroughPlan(initial_passthrough, missing_required, prompt_optional_args) ==
    [initial_passthrough |-> initial_passthrough,
     missing_required |-> missing_required,
     prompt_optional_args |-> prompt_optional_args]

\* (mutant of build_passthrough_plan: every required name is reported missing)
build_passthrough_plan_AllMissing(required_args, cli_passthrough, prompt_optional_args) ==
    PassthroughPlan(cli_passthrough, required_args, prompt_optional_args)

\* build_passthrough_plan(required, cli_passthrough, prompt_optional_args)
build_passthrough_plan(required_args, cli_passthrough, prompt_optional_args) ==
    LET start == IF Len(cli_passthrough) < Len(required_args)
                 THEN Len(cli_passthrough) ELSE Len(required_args)
    IN  PassthroughPlan(cli_passthrough,
                        SubSeq(required_args, start + 1, Len(required_args)),
                        prompt_optional_args)

PlanSome(args) == [kind |-> "some", args |-> args]
PlanNone == [kind |-> "none", args |-> <<>>]

\* collect_passthrough is called with the required names the lookup returned.
InitPlan ==
    /\ ResolveIdle /\ TokIdle /\ LedgerIdle
    /\ listing = NoListing /\ run = NoRun /\ texts = <<>> /\ scan = NoScan
    /\ \E r \in SeqsUpTo(ArgNames, MaxRequired), c \in SeqsUpTo(CliArgs, MaxCli),
          flag \in BOOLEAN :
          plan = [NoPlan EXCEPT !.pc = "call", !.required = r,
                                !.cli_passthrough = c,
                                !.prompt_optional_args = flag]

\* The plan is built; with nothing missing and no prompt asked for, the
\* command-line arguments are returned at once.
BuildPlan ==
    /\ plan.pc = "call"
    /\ LET built == build_passthrough_plan(plan.required, plan.cli_passthrough,
                                           plan.prompt_optional_args)
       IN  plan' = [plan EXCEPT
                       !.plan = built,
                       !.passthrough = built.initial_passthrough,
                       !.pc = IF built.missing_required = <<>>
                                 /\ ~built.prompt_optional_args
                              THEN "done" ELSE "required",
                       !.ret = IF built.missing_required = <<>>
                                  /\ ~built.prompt_optional_args
                               THEN PlanSome(built.initial_passthrough) ELSE @]
    /\ UNCHANGED notPlan

\* Names of plan.missing_required already prompted for.
Prompted == Len(plan.passthrough) - Len(plan.plan.initial_passthrough)

\* prompt_required_argument returns a value, which is pushed.
PromptRequired ==
    /\ plan.pc = "required"
    /\ Prompted < Len(plan.plan.missing_required)
    /\ \E value \in Typed : plan' = [plan EXCEPT !.passthrough = Append(@, value)]
    /\ UNCHANGED notPlan

\* A prompt is cancelled: collect_passthrough returns None.
PromptCancelled ==
    /\ \/ plan.pc = "required" /\ Prompted < Len(plan.plan.missing_required)
       \/ plan.pc = "optional"
    /\ plan' = [plan EXCEPT !.pc = "done", !.ret = PlanNone]
    /\ UNCHANGED notPlan

\* The loop over missing_required is over.
RequiredDone ==
    /\ plan.pc = "required"
    /\ Prompted = Len(plan.plan.missing_required)
    /\ plan' = IF plan.plan.prompt_optional_args
               THEN [plan EXCEPT !.pc = "optional"]
               ELSE [plan EXCEPT !.pc = "done", !.ret = PlanSome(plan.passthrough)]
    /\ UNCHANGED notPlan

\* prompt_optional_passthrough returns arguments, which are appended.
PromptOptional ==
    /\ plan.pc = "optional"
    /\ \E optional \in SeqsUpTo(Typed, 1) :
          plan' = [plan EXCEPT !.pc = "done",
                               !.passthrough = @ \o optional,
                               !.ret = PlanSome(plan.passthrough \o optional)]
    /\ UNCHANGED notPlan

NextPlan ==
    \/ BuildPlan
    \/ PromptRequired
    \/ PromptCancelled
    \/ RequiredDone
    \/ PromptOptional

SpecPlan == InitPlan /\ [][NextPlan]_vars

\* The plan of the call has been built.
Built == plan.pc \notin {"idle", "call"}

\* C26: the plan keeps the command-line arguments unchanged and in order,
\* reports as missing exactly the required names at positions at or beyond
\* the number of command-line arguments (none when there are at least as many
\* command-line arguments as required names), and carries the
\* prompt-optional flag through unchanged.
C26_Theorem ==
    Built =>
        LET n == Len(plan.cli_passthrough)
            missing == plan.plan.missing_required
        IN  /\ plan.plan.initial_passthrough = plan.cli_passthrough
            /\ Len(missing) = IF n >= Len(plan.required) THEN 0
                              ELSE Len(plan.required) - n
            /\ \A i \in 1..Len(missing) : missing[i] = plan.required[n + i]
            /\ plan.plan.prompt_optional_args = plan.prompt_optional_args

\* The unit test's case: two required names, one command-line argument,
\* the second name missing.
C26_Witness ==
    /\ Built
    /\ plan.required = <<"ENV", "TARGET">>
    /\ plan.cli_passthrough = <<"prod">>
    /\ plan.plan.missing_required = <<"TARGET">>

\* The candidate locations of call c whose file holds the line of its record.
PlacedAt(c) ==
    {path \in Range(c.paths) :
        fs[path].kind = "file" /\ Contains(fs[path].content, LineOf(c.record))}

\* The positions at which the records a read returned hold the record.
ReturnedAt(r, record) ==
    {k \in 1..Len(r.ret.records) : r.ret.records[k].record = record}

\* C28 (as claimed): after a default append has returned, whatever step of it
\* failed, the line of its record is present in at most one candidate
\* location, and a merged read made later never returns the record twice.
C28_AsClaimed ==
    \A p \in Procs : \A i \in AppendsOf(p) :
        /\ Cardinality(PlacedAt(hist[p][i])) <= 1
        /\ \A q \in Procs : \A j \in 1..Len(hist[q]) :
              hist[q][j].op = "read" =>
                  Cardinality(ReturnedAt(hist[q][j], hist[p][i].record)) <= 1

(***************************************************************************)
(* The run: execute_and_record and rerun_from_history (src/main.rs)        *)
(***************************************************************************)
\* The process that runs rt; the other process is another rt that appends.
Rt == "p1"
Other == "p2"

\* status.code() of the executed command.
ExitCodes == {0, 3}

RunOk(code) == [kind |-> "ok", code |-> code, error |-> ""]
RunErr(error) == [kind |-> "err", code |-> 0, error |-> error]

\* The last call of the ledger that returned to rt.
LastCall == hist[Rt][Len(hist[Rt])]

\* rt is started on a task or with --history, on a machine whose first
\* ledger location is missing or holds one record.
InitRun ==
    /\ ResolveIdle /\ TokIdle
    /\ listing = NoListing /\ plan = NoPlan /\ texts = <<>> /\ scan = NoScan
    /\ env = [xdg |-> None, home |-> Some(<<"h">>)]
    /\ \E stored \in {<<>>, <<HistoryRecord(<<"0", "Z">>, <<"b">>, 0, None)>>} :
          fs = [path \in AllPaths |->
                   IF path = default_history_paths[1] /\ stored # <<>>
                   THEN RegularFile(Written(stored)) ELSE MissingFile]
    /\ locks = {}
    /\ proc = [p \in Procs |-> Idle]
    /\ hist = [p \in Procs |-> <<>>]
    /\ ncalls = 0
    /\ faults = 0
    /\ \E entry \in {"task", "history"}, verbose \in BOOLEAN :
          run = [NoRun EXCEPT !.pc = IF entry = "task" THEN "exec" ELSE "read",
                              !.entry = entry, !.verbose = verbose]

\* rerun_from_history: history::read_default() is called.
RerunRead ==
    /\ run.pc = "read" /\ hist[Rt] = <<>>
    /\ ReadDefault(Rt)

\* read_default() returned an error: map_err(RtError::Io)?.
RerunReadFails ==
    /\ run.pc = "read" /\ hist[Rt] # <<>> /\ proc[Rt].pc = "idle"
    /\ LastCall.ret.kind = "err"
    /\ run' = [run EXCEPT !.pc = "done", !.ret = RunErr("io")]
    /\ UNCHANGED <<rvars, tvars, kvars, lvars, pvars, avars, jvars>>

\* No record: choices.is_empty(), Ok(0).
RerunEmpty ==
    /\ run.pc = "read" /\ hist[Rt] # <<>> /\ proc[Rt].pc = "idle"
    /\ LastCall.ret.kind = "ok" /\ LastCall.ret.records = <<>>
    /\ run' = [run EXCEPT !.pc = "done", !.ret = RunOk(0),
                          !.printed = IF run.verbose
                                      THEN Append(@, "rt history is empty") ELSE @]
    /\ UNCHANGED <<rvars, tvars, kvars, lvars, pvars, avars, jvars>>

\* The prompt is cancelled (Ok(0)), fails (RtError::Prompt) or returns the
\* selected command.
RerunSelect ==
    /\ run.pc = "read" /\ hist[Rt] # <<>> /\ proc[Rt].pc = "idle"
    /\ LastCall.ret.kind = "ok" /\ LastCall.ret.records # <<>>
    /\ \/ run' = [run EXCEPT !.pc = "done", !.ret = RunOk(0)]
       \/ run' = [run EXCEPT !.pc = "done", !.ret = RunErr("prompt")]
       \/ run' = [run EXCEPT !.pc = "exec"]
    /\ UNCHANGED <<rvars, tvars, kvars, lvars, pvars, avars, jvars>>

\* exec::run(..)? or exec::run_shell(..)? returns the result of the command.
RunExec ==
    /\ run.pc = "exec"
    /\ \E code \in ExitCodes :
          run' = [run EXCEPT !.pc = "record", !.executed = TRUE, !.exit_code = code]
    /\ UNCHANGED <<rvars, tvars, kvars, lvars, pvars, avars, jvars>>

\* exec::run(..)? fails: the command could not be started.
RunExecFails ==
    /\ run.pc = "exec"
    /\ run' = [run EXCEPT !.pc = "done", !.ret = RunErr("spawn")]
    /\ UNCHANGED <<rvars, tvars, kvars, lvars, pvars, avars, jvars>>

\* history::append_default / append_shell_default is called with
\* exit_code: result.exit_code.
RunAppend ==
    /\ run.pc = "record"
    /\ proc[Rt].pc = "idle" /\ ncalls < MaxCalls
    /\ proc' = [proc EXCEPT ![Rt] =
                   [Idle EXCEPT !.pc = "open", !.op = "append",
                                !.paths = default_history_paths, !.idx = 1,
                                !.record = [RecordOfCall(ncalls + 1) EXCEPT
                                               !.exit_code = run.exit_code]]]
    /\ ncalls' = ncalls + 1
    /\ run' = [run EXCEPT !.pc = "append"]
    /\ UNCHANGED <<env, fs, locks, hist, faults>>
    /\ UNCHANGED <<rvars, tvars, kvars, pvars, avars, jvars>>

\* (mutant of RunReturn: an append error becomes the error of the run)
RunReturn_Propagates ==
    /\ run.pc = "append" /\ proc[Rt].pc = "idle"
    /\ run' = [run EXCEPT
                  !.pc = "done",
                  !.ret = IF LastCall.ret.kind = "err" THEN RunErr("io")
                          ELSE RunOk(run.exit_code)]
    /\ UNCHANGED <<rvars, tvars, kvars, lvars, pvars, avars, jvars>>

\* The append returned: its error is printed when verbose, and
\* Ok(result.exit_code) is returned.
RunReturn ==
    /\ run.pc = "append" /\ proc[Rt].pc = "idle"
    /\ run' = [run EXCEPT
                  !.pc = "done",
                  !.printed = IF LastCall.ret.kind = "err" /\ run.verbose
                              THEN Append(@, "failed to write rt history") ELSE @,
                  !.ret = RunOk(run.exit_code)]
    /\ UNCHANGED <<rvars, tvars, kvars, lvars, pvars, avars, jvars>>

\* Another rt appends a record of its own.
OtherAppends == AppendDefault(Other)

NextRun ==
    \/ RerunRead
    \/ RerunReadFails
    \/ RerunEmpty
    \/ RerunSelect
    \/ RunExec
    \/ RunExecFails
    \/ RunAppend
    \/ RunReturn
    \/ OtherAppends
    \/ \E p \in Procs :
          \/ InAppend(p)
          \/ ReadAll(p)
          \/ ReadAllFails(p)
          \/ ReadReturn(p)

SpecRun == InitRun /\ [][NextRun]_vars

\* The run returned after its append returned.
Recorded ==
    /\ run.pc = "done" /\ run.executed
    /\ hist[Rt] # <<>> /\ LastCall.op = "append"

\* C29: after the command has been executed, the value returned is the
\* command's exit code whether the ledger append succeeded or failed (an
\* append failure is never an error result), and the ledger append is
\* attempted only after the execution has finished, with that exit code.
C29_Theorem ==
    /\ (run.pc = "done" /\ run.executed) =>
          /\ run.ret = RunOk(run.exit_code)
          /\ hist[Rt] # <<>> /\ LastCall.op = "append"
          /\ LastCall.record.exit_code = run.exit_code
    /\ (proc[Rt].op = "append" \/ AppendsOf(Rt) # {}) => run.executed

\* A run whose append failed returned the nonzero exit code of its command.
C29_Witness ==
    /\ Recorded
    /\ LastCall.ret.kind = "err"
    /\ run.exit_code = 3
    /\ run.ret = RunOk(3)

(***************************************************************************)
(* The text of a justfile: parse_justfile_contents, parse_import_line,     *)
(* parse_recipe_line and parse_comment_line (src/parser/justfile.rs)       *)
(***************************************************************************)
\* Longest enumerated line of a justfile.
MaxHeaderLen == 5

Blank == {" ", "\t"}

\* str::find(ch): the position (from 1) of the first ch, 0 for None.
IndexOf(s, ch) ==
    IF \E i \in 1..Len(s) : s[i] = ch
    THEN CHOOSE i \in 1..Len(s) : s[i] = ch /\ \A j \in 1..(i - 1) : s[j] # ch
    ELSE 0

\* str::starts_with
StartsWith(s, prefix) ==
    Len(s) >= Len(prefix) /\ SubSeq(s, 1, Len(prefix)) = prefix

\* str::split_whitespace().next(): the first word, <<>> for None.
FirstWord(s) ==
    LET t == TrimStartMatches(s, Blank)
        ends == {i \in 1..Len(t) : t[i] \in Blank}
    IN  IF ends = {} THEN t
        ELSE SubSeq(t, 1, (CHOOSE i \in ends : \A j \in ends : i <= j) - 1)

Keyword == <<"i", "m", "p", "o", "r", "t">>

\* parse_import_line(line): None, or Some(ImportSpec) in args.
parse_import_line(input) ==
    LET optional == StartsWith(input, Keyword \o <<"?">>)
        rest == TrimStartMatches(
                    SubSeq(input, Len(Keyword) + (IF optional THEN 2 ELSE 1), Len(input)),
                    Blank)
        end == IndexOf(Tail(rest), rest[1])
    IN  IF ~StartsWith(input, Keyword) THEN None
        ELSE IF rest = <<>> THEN None
        ELSE IF rest[1] \notin {"'", "\""} THEN None
        ELSE IF end = 0 THEN None
        ELSE IF end = 1 THEN None
        ELSE Some(ImportSpec(SubSeq(rest, 2, end), optional))

\* parse_comment_line(line) of justfile.rs
parse_comment_line(input) ==
    LET comment == Trim(TrimStartMatches(input, {"#"}))
    IN  IF comment = <<>> THEN None ELSE Some(comment)

\* parse_recipe_line(line, pending_desc): None, or Some(ParsedRecipe) in args.
parse_recipe_line(input, pending_desc) ==
    LET hash == IndexOf(input, "#")
        lhs == IF hash > 0
               THEN TrimEndMatches(SubSeq(input, 1, hash - 1), Blank) ELSE input
        inline_desc == IF hash > 0
                       THEN Some(Trim(SubSeq(input, hash + 1, Len(input))))
                       ELSE None
        colon == IndexOf(lhs, ":")
        name == FirstWord(SubSeq(lhs, 1, colon - 1))
        description == IF inline_desc.kind = "some" /\ inline_desc.args # <<>>
                       THEN inline_desc ELSE pending_desc
    IN  IF Contains(lhs, <<":", "=">>) THEN None
        ELSE IF colon = 0 THEN None
        ELSE IF name = <<>> THEN None
        ELSE Some(ParsedRecipe(name, description))

\* One turn of the loop of parse_justfile_contents, on the k-th line.
ScanLine(st, raw_line, k) ==
    LET l == TrimEndMatches(raw_line, Blank)
        is_indented == l[1] \in Blank
        trimmed_line == TrimStartMatches(l, Blank)
        import == parse_import_line(trimmed_line)
        recipe == parse_recipe_line(trimmed_line, st.pending_desc)
    IN  IF l = <<>> THEN [st EXCEPT !.pending_desc = None]
        ELSE IF is_indented THEN [st EXCEPT !.pending_desc = None]
        ELSE IF import.kind = "some"
        THEN [st EXCEPT !.imports = Append(@, import.args), !.pending_desc = None]
        ELSE IF trimmed_line[1] = "#"
        THEN [st EXCEPT !.pending_desc = parse_comment_line(trimmed_line)]
        ELSE IF recipe.kind = "some"
        THEN [st EXCEPT !.recipes = Append(@, recipe.args),
                        !.from = Append(@, k), !.pending_desc = None]
        ELSE [st EXCEPT !.pending_desc = None]

RECURSIVE ScanFrom(_, _, _)
ScanFrom(st, ls, k) ==
    IF k > Len(ls) THEN st ELSE ScanFrom(ScanLine(st, ls[k], k), ls, k + 1)

\* parse_justfile_contents(contents): the imports and the recipes.
parse_justfile_contents(contents) == ScanFrom(NoScan, Lines(contents), 1)

\* The characters of the enumerated lines: a name, the separators, the
\* comment and assignment characters, a quote or a parenthesis.
HeaderAlphabets ==
    {{"a", " ", ":", "#", "\""}, {"a", " ", ":", "=", "\""},
     {"a", ":", "#", "(", ")"}, {"a", "\t", ":", "=", "#"}}

RecipeLines == UNION {Strings(alphabet, MaxHeaderLen) : alphabet \in HeaderAlphabets}

\* Files of several lines: a comment block above a recipe, an indented body,
\* imports, an assignment, and headers with a default value that holds a
\* colon, a # or a := inside quotes.
FixedTexts ==
    {<< <<"#", " ", "d">>, <<"a", " ", "b", ":">>, <<"\t", "e", ":">>, <<>>,
        <<"b", ":", " ", "#", " ", "e">> >>,
     << Keyword \o <<" ", "'", "A", "'">>, Keyword \o <<"?", " ", "\"", "M", "\"">>,
        Keyword \o <<" ", "A">>, <<"a", " ", ":", "=", " ", "b">> >>,
     << <<"a", " ", "b", "=", "\"", "#", "\"", ":">> >>,
     << <<"a", " ", "b", "=", "\"", ":", "=", "\"", ":">> >>,
     << <<"a", " ", "b", "=", "\"", "d", ":", "e", "\"">> >>}

InitContents ==
    /\ ResolveIdle /\ TokIdle /\ LedgerIdle
    /\ listing = NoListing /\ plan = NoPlan /\ run = NoRun
    /\ \E ls \in {<<l>> : l \in RecipeLines} \cup FixedTexts :
          texts = [p \in {"R"} |-> Text(ls)]
    /\ scan = [NoScan EXCEPT !.pc = "loop", !.path = "R"]

\* contents.lines()
ScanLines == Lines(texts[scan.path])

\* for raw_line in contents.lines() { .. }
ScanNext ==
    /\ scan.pc = "loop" /\ scan.pos < Len(ScanLines)
    /\ scan' = [ScanLine(scan, ScanLines[scan.pos + 1], scan.pos + 1) EXCEPT
                   !.pos = scan.pos + 1]
    /\ UNCHANGED <<rvars, tvars, kvars, lvars, pvars, avars, evars, texts>>

\* ParsedFile { imports, recipes }
ScanReturn ==
    /\ scan.pc = "loop" /\ scan.pos = Len(ScanLines)
    /\ scan' = [scan EXCEPT !.pc = "done"]
    /\ UNCHANGED <<rvars, tvars, kvars, lvars, pvars, avars, evars, texts>>

NextContents == ScanNext \/ ScanReturn

SpecContents == InitContents /\ [][NextContents]_vars

\* The header of a line: what stands before the first # that is outside
\* quotes and brackets.
RECURSIVE HashFrom(_, _, _)
HashFrom(input, idx, st) ==
    IF idx > Len(input) THEN 0
    ELSE IF top_level(st) /\ input[idx] = "#" THEN idx
    ELSE HashFrom(input, idx + 1, advance_state(st, input[idx]))

HeaderOf(input) ==
    LET hash == HashFrom(input, 1, StartState)
    IN  IF hash = 0 THEN input ELSE SubSeq(input, 1, hash - 1)

\* The header has a := outside quotes and brackets.
RECURSIVE AssignFrom(_, _, _)
AssignFrom(input, idx, st) ==
    IF idx >= Len(input) THEN FALSE
    ELSE IF top_level(st) /\ input[idx] = ":" /\ input[idx + 1] = "=" THEN TRUE
    ELSE AssignFrom(input, idx + 1, advance_state(st, input[idx]))

IsAssignment(input) == AssignFrom(HeaderOf(input), 1, StartState)

\* The line with every colon, # and = that stands inside quotes or brackets
\* replaced by a letter.
RECURSIVE MaskFrom(_, _, _)
MaskFrom(input, idx, st) ==
    IF idx > Len(input) THEN <<>>
    ELSE LET next == advance_state(st, input[idx])
         IN  <<IF ~top_level(st) /\ ~top_level(next) /\ input[idx] \in {":", "#", "="}
               THEN "a" ELSE input[idx]>>
             \o MaskFrom(input, idx + 1, next)

Masked(input) == MaskFrom(input, 1, StartState)

\* The lines parse_justfile_contents has gone through.
Scanned == 1..scan.pos

\* C27 (as claimed): a line is recorded as a recipe only if it starts at
\* column 0, is not a variable assignment and has a colon outside all quotes,
\* parentheses, brackets and braces; and colons, # and := inside quotes or
\* brackets do not decide whether the line is a recipe.
C27_AsClaimed ==
    /\ \A k \in Range(scan.from) :
          LET l == ScanLines[k]
          IN  /\ l[1] \notin Blank
              /\ ~IsAssignment(l)
              /\ find_top_level_colon(HeaderOf(l)) # 0
    /\ \A k \in Scanned :
          LET l == TrimEndMatches(ScanLines[k], Blank)
          IN  (l # <<>> /\ l[1] \notin Blank) =>
                  parse_recipe_line(l, None).kind = parse_recipe_line(Masked(l), None).kind

(***************************************************************************)
(* The lookup and the import resolver on one directory: the root justfile  *)
(* R, which is the detected runner file, and the file A it may import.     *)
(***************************************************************************)
\* Lines of the root file, at most.
MaxScopeLines == 2

Import(quoted) == Keyword \o <<" ", "'", quoted, "'">>

\* The lines the root file is made of: imports of A, of the directory B and
\* of the missing M, two headers of a and one of b.
ScopeLines ==
    {Import("A"), Keyword \o <<"?", " ", "'", "M", "'">>, Import("B"),
     <<"a", " ", "p", ":">>, <<"a", " ", "r", ":">>, <<"b", ":">>}

\* The imported file: it imports the root, and declares a and d with one
\* parameter each.
ImportedLines == <<Import("R"), <<"a", " ", "t", ":">>, <<"d", " ", "s", ":">>>>

\* The file system the resolver walks, given the texts of the justfiles:
\* every file lies in one directory and is named by one character.
FilesOf(t) ==
    [p \in Paths |->
        IF p \in DOMAIN t
        THEN LET parsed == parse_justfile_contents(t[p])
             IN  File([i \in 1..Len(parsed.imports) |->
                          ImportSpec(parsed.imports[i].raw[1], parsed.imports[i].optional)],
                      parsed.recipes)
        ELSE IF p = "B" THEN Dir
        ELSE IF p = "L" THEN Link("R")
        ELSE Missing]

\* parse_with_imports(R) and required_args_for_task(detection, task) are
\* called in a directory whose runner file is R.
InitScope ==
    /\ LedgerIdle
    /\ listing = NoListing /\ plan = NoPlan /\ run = NoRun /\ scan = NoScan
    /\ \E ls \in SeqsUpTo(ScopeLines, MaxScopeLines) :
          texts = [p \in {"R", "A"} |-> IF p = "R" THEN Text(ls) ELSE Text(ImportedLines)]
    /\ files = FilesOf(texts)
    /\ root = "R"
    /\ frames = <<Frame(root, 0, "enter", 0, 0, 0)>>
    /\ stack = <<>>
    /\ state = [order |-> 0, items |-> {}]
    /\ result = Running
    /\ log = <<>>
    /\ line = <<>> /\ tpc = "idle" /\ header_end = 0 /\ parts = <<>>
    /\ required = None
    /\ task \in {<<"a">>, <<"d">>}
    /\ \E runner \in {"justfile", "other"} :
          lookup = [NoLookup EXCEPT !.pc = "call", !.runner = runner,
                                    !.content = TaskFile(texts[root])]

NextScope == NextResolve \/ NextLookup

SpecScope == InitScope /\ [][NextScope]_vars

\* The resolver returned a catalog and the lookup read the runner file.
Settled == result.kind = "ok" /\ Looked

\* The catalog lists the task, and the runner file itself does not declare it.
OnlyImported ==
    /\ \E i \in 1..Len(result.catalog) : result.catalog[i].name = task
    /\ \A i \in 1..Len(files[root].recipes) : files[root].recipes[i].name # task

\* The lines of the runner file that declare the task.
Declarations ==
    {k \in 1..Len(LookupLines) :
        LET recipe == parse_recipe_line(LookupLines[k], None)
        IN  recipe.kind = "some" /\ recipe.args.name = task}

\* C30: the lookup scans only the lines of the detected runner file, in
\* order, and returns the result of the first header whose name matches; it
\* follows no import, so a task the resolver lists but that only an imported
\* file defines gets the empty list, and a task declared twice in the root
\* file gets the arguments of the first declaration.
C30_Theorem ==
    /\ lookup.content.text = texts[root]
    /\ lookup.pos <= Len(LookupLines)
    /\ tpc # "idle" => line = LookupLines[lookup.pos]
    /\ Looked =>
          LET n == Len(lookup.seen)
          IN  /\ n = lookup.pos
              /\ \A k \in 1..(n - 1) : lookup.seen[k] = None
              /\ IF n > 0 /\ lookup.seen[n].kind = "some"
                 THEN lookup.ret = ArgsOk(lookup.seen[n].args)
                 ELSE n = Len(LookupLines) /\ lookup.ret = ArgsOk(<<>>)
              /\ Cardinality(Declarations) >= 2 =>
                    n = CHOOSE k \in Declarations : \A j \in Declarations : k <= j
    /\ (Settled /\ OnlyImported) => lookup.ret = ArgsOk(<<>>)

\* The catalog lists d, which only the imported file declares, with the
\* parameter s; the lookup for d returned the empty list.
C30_Witness ==
    /\ Settled /\ OnlyImported
    /\ task = <<"d">>
    /\ Contains(texts["A"], <<"d", " ", "s", ":">>)
    /\ lookup.ret = ArgsOk(<<>>)

\* The root file declares a twice; the lookup returned the parameter of the
\* first declaration.
C30_WitnessTwice ==
    /\ Looked
    /\ LookupLines = <<<<"a", " ", "p", ":">>, <<"a", " ", "r", ":">>>>
    /\ task = <<"a">>
    /\ lookup.ret = ArgsOk(<<<<"p">>>>)

(***************************************************************************)
(* Listing parsers: parse_tasks and the six dialects (src/parser.rs,       *)
(* src/parser/justfile.rs, taskfile.rs, cargo_make.rs, makefile.rs,        *)
(* mise.rs, mask.rs)                                                       *)
(***************************************************************************)
\* tasks::TaskItem, as the listing parsers build it.
ListedItem(name, description) == [name |-> name, description |-> description]

\* Option::filter(|d| !d.is_empty())
NonEmpty(desc) == IF desc.kind = "some" /\ desc.args # <<>> THEN desc ELSE None

\* The text of a word of the tools' output, one character per element.
Chars(word) ==
    CASE word = "Available" -> <<"A", "v", "a", "i", "l", "a", "b", "l", "e">>
      [] word = "Recipes" -> <<"R", "e", "c", "i", "p", "e", "s">>
      [] word = "task:" -> <<"t", "a", "s", "k", ":">>
      [] word = "Tasks" -> <<"T", "a", "s", "k", "s">>
      [] word = "# Files" -> <<"#", " ", "F", "i", "l", "e", "s">>
      [] word = "# Finished" -> <<"#", " ", "F", "i", "n", "i", "s", "h", "e", "d">>
      [] word = "Files" -> <<"F", "i", "l", "e", "s">>
      [] word = "Finished" -> <<"F", "i", "n", "i", "s", "h", "e", "d">>
      [] word = "Not a target" ->
            <<"N", "o", "t", " ", "a", " ", "t", "a", "r", "g", "e", "t">>
      [] word = ".PHONY:" -> <<".", "P", "H", "O", "N", "Y", ":">>
      [] word = "Makefile" -> <<"M", "a", "k", "e", "f", "i", "l", "e">>
      [] word = "makefile" -> <<"m", "a", "k", "e", "f", "i", "l", "e">>
      [] word = "GNUmakefile" ->
            <<"G", "N", "U", "m", "a", "k", "e", "f", "i", "l", "e">>

\* justfile::parse, one line: None, or Some(item) in args.
JustItem(raw_line) ==
    LET l == Trim(raw_line)
        hash == IndexOf(l, "#")
        lhs == IF hash > 0 THEN Trim(SubSeq(l, 1, hash - 1)) ELSE l
        desc == IF hash > 0 THEN Some(Trim(SubSeq(l, hash + 1, Len(l)))) ELSE None
        name == FirstWord(lhs)
    IN  IF l = <<>> THEN None
        ELSE IF StartsWith(l, Chars("Available")) \/ StartsWith(l, Chars("Recipes"))
        THEN None
        ELSE IF name = <<>> THEN None
        ELSE Some(ListedItem(name, NonEmpty(desc)))

\* taskfile::parse, one line.
TaskfileItem(raw_line) ==
    LET l0 == TrimStartMatches(raw_line, Blank)
        l == IF StartsWith(l0, <<"*", " ">>) \/ StartsWith(l0, <<"-", " ">>)
             THEN SubSeq(l0, 3, Len(l0)) ELSE l0
        colon == IndexOf(l, ":")
        name == IF colon > 0 THEN Trim(SubSeq(l, 1, colon - 1)) ELSE Trim(l)
        desc == IF colon > 0 THEN Some(Trim(SubSeq(l, colon + 1, Len(l)))) ELSE None
    IN  IF l0 = <<>> THEN None
        ELSE IF StartsWith(l0, Chars("task:")) \/ StartsWith(l0, Chars("Available"))
        THEN None
        ELSE IF name = <<>> THEN None
        ELSE Some(ListedItem(name, NonEmpty(desc)))

\* cargo_make::parse, one line.
CargoMakeItem(raw_line) ==
    LET l == Trim(raw_line)
        gaps == {i \in 1..Len(l) : l[i] \in Blank}
        gap == IF gaps = {} THEN 0 ELSE CHOOSE i \in gaps : \A j \in gaps : i <= j
        name == IF gap = 0 THEN l ELSE Trim(SubSeq(l, 1, gap - 1))
        desc == IF gap = 0 THEN None ELSE Some(Trim(SubSeq(l, gap + 1, Len(l))))
    IN  IF l = <<>> THEN None
        ELSE IF l[Len(l)] = ":" \/ StartsWith(l, Chars("Available"))
                \/ StartsWith(l, Chars("Tasks"))
        THEN None
        ELSE IF name = <<>> THEN None
        ELSE Some(ListedItem(name, NonEmpty(desc)))

(* ---- makefile.rs ---- *)
RECURSIVE Words(_)
\* str::split_whitespace
Words(s) ==
    LET word == FirstWord(s)
        t == TrimStartMatches(s, Blank)
    IN  IF word = <<>> THEN <<>>
        ELSE <<word>> \o Words(SubSeq(t, Len(word) + 1, Len(t)))

\* is_make_target_name
is_make_target_name(name) ==
    /\ name # <<>>
    /\ name[1] # "."
    /\ \A i \in 1..Len(name) : name[i] \notin {"%", "$", "="}
    /\ name \notin {Chars("Makefile"), Chars("makefile"), Chars("GNUmakefile")}

\* parse_comment_line of makefile.rs
parse_make_comment_line(input) ==
    LET comment == Trim(TrimStartMatches(input, {"#"}))
    IN  IF comment = <<>> THEN None
        ELSE IF StartsWith(comment, Chars("Files"))
                \/ StartsWith(comment, Chars("Finished"))
                \/ StartsWith(comment, Chars("Not a target"))
                \/ comment[Len(comment)] = ":"
        THEN None
        ELSE Some(comment)

\* BTreeMap::entry(name).or_insert(None)
OrInsertNone(tasks, name) ==
    IF name \in DOMAIN tasks THEN tasks
    ELSE [n \in DOMAIN tasks \cup {name} |-> IF n = name THEN None ELSE tasks[n]]

\* BTreeMap::insert(name, description)
MapInsert(tasks, name, description) ==
    [n \in DOMAIN tasks \cup {name} |-> IF n = name THEN description ELSE tasks[n]]

RECURSIVE OrInsertAll(_, _)
OrInsertAll(tasks, names) ==
    IF names = <<>> THEN tasks
    ELSE OrInsertAll(OrInsertNone(tasks, Head(names)), Tail(names))

\* The description after the colon of a rule: rest.split_once('#').
InlineDesc(rest) ==
    LET hash == IndexOf(rest, "#")
    IN  IF hash = 0 THEN None
        ELSE NonEmpty(Some(Trim(SubSeq(rest, hash + 1, Len(rest)))))

\* output.lines().any(|line| line.trim_start().starts_with("# Files"))
HasFilesSection(ls) ==
    \E k \in 1..Len(ls) : StartsWith(TrimStartMatches(ls[k], Blank), Chars("# Files"))

\* One turn of the loop of parse_with_makefile_source; pc is "fill" after
\* the break.
MakeLine(st, raw_line) ==
    LET l == TrimEndMatches(raw_line, Blank)
        t == TrimStartMatches(l, Blank)
        colon == IndexOf(t, ":")
        name == Trim(SubSeq(t, 1, colon - 1))
        inline_desc == InlineDesc(SubSeq(t, colon + 1, Len(t)))
        description == IF inline_desc.kind = "some" THEN inline_desc
                       ELSE st.pending_desc
    IN  IF l = <<>> THEN [st EXCEPT !.pending_desc = None]
        ELSE IF StartsWith(t, Chars("# Files"))
        THEN [st EXCEPT !.in_files = TRUE, !.pending_desc = None]
        ELSE IF StartsWith(t, Chars("# Finished")) THEN [st EXCEPT !.pc = "fill"]
        ELSE IF StartsWith(t, Chars(".PHONY:"))
        THEN [st EXCEPT !.items = OrInsertAll(@, Words(SubSeq(t, 8, Len(t)))),
                        !.pending_desc = None]
        ELSE IF ~st.in_files THEN [st EXCEPT !.pending_desc = None]
        ELSE IF t[1] = "#" THEN [st EXCEPT !.pending_desc = parse_make_comment_line(t)]
        ELSE IF l[1] \in Blank THEN [st EXCEPT !.pending_desc = None]
        ELSE IF colon = 0 THEN st
        ELSE IF ~is_make_target_name(name) THEN [st EXCEPT !.pending_desc = None]
        ELSE IF description.kind = "some"
        THEN [st EXCEPT !.items = MapInsert(@, name, description),
                        !.pending_desc = None]
        ELSE [st EXCEPT !.items = OrInsertNone(@, name), !.pending_desc = None]

\* One turn of the loop of parse_makefile_descriptions: st is
\* [pending_desc, descriptions].
RECURSIVE InsertAll(_, _, _)
InsertAll(descriptions, names, description) ==
    IF names = <<>> THEN descriptions
    ELSE InsertAll(MapInsert(descriptions, Head(names), description),
                   Tail(names), description)

SourceLine(st, raw_line) ==
    LET l == TrimEndMatches(raw_line, Blank)
        t == TrimStartMatches(l, Blank)
        colon == IndexOf(t, ":")
        rest == SubSeq(t, colon + 1, Len(t))
        words == Words(SubSeq(t, 1, colon - 1))
        target_names == SelectSeq(words, is_make_target_name)
        inline_desc == InlineDesc(rest)
        description == IF inline_desc.kind = "some" THEN inline_desc
                       ELSE st.pending_desc
    IN  IF l = <<>> THEN [st EXCEPT !.pending_desc = None]
        ELSE IF t[1] = "#" THEN [st EXCEPT !.pending_desc = parse_make_comment_line(t)]
        ELSE IF l[1] \in Blank THEN [st EXCEPT !.pending_desc = None]
        ELSE IF colon = 0 THEN [st EXCEPT !.pending_desc = None]
        ELSE IF StartsWith(TrimStartMatches(rest, Blank), <<"=">>)
        THEN [st EXCEPT !.pending_desc = None]
        ELSE IF target_names = <<>> THEN [st EXCEPT !.pending_desc = None]
        ELSE IF description.kind = "some"
        THEN [pending_desc |-> None,
              descriptions |-> InsertAll(st.descriptions, target_names, description.args)]
        ELSE [st EXCEPT !.pending_desc = None]

RECURSIVE SourceFrom(_, _, _)
SourceFrom(st, ls, k) ==
    IF k > Len(ls) THEN st ELSE SourceFrom(SourceLine(st, ls[k]), ls, k + 1)

\* parse_makefile_descriptions(source)
parse_makefile_descriptions(source) ==
    SourceFrom([pending_desc |-> None, descriptions |-> <<>>], Lines(source), 1).descriptions

\* The descriptions of the makefile fill in the tasks that have none.
Backfill(tasks, source) ==
    IF source.kind = "none" THEN tasks
    ELSE LET descriptions == parse_makefile_descriptions(source.args)
         IN  [n \in DOMAIN tasks |->
                 IF tasks[n].kind = "none" /\ n \in DOMAIN descriptions
                 THEN Some(descriptions[n]) ELSE tasks[n]]

\* The characters of the listings, in the order of their code points.
Ascii ==
    <<"\t", " ", "#", "$", "%", "*", "-", ".", ":", "=", "@", "A", "B",
      "C", "D", "E", "F", "G", "H", "I", "J", "K", "L", "M", "N", "O", "P",
      "Q", "R", "S", "T", "U", "V", "W", "X", "Y", "Z", "a", "b", "c", "d",
      "e", "f", "g", "h", "i", "j", "k", "l", "m", "n", "o", "p", "q", "r",
      "s", "t", "u", "v", "w", "x", "y", "z">>

\* The rank of a character by its code point.
ByteOf(c) == CHOOSE i \in 1..Len(Ascii) : Ascii[i] = c

\* String's Ord, by which a BTreeMap iterates.
RECURSIVE NameLess(_, _)
NameLess(a, b) ==
    IF b = <<>> THEN FALSE
    ELSE IF a = <<>> THEN TRUE
    ELSE IF ByteOf(Head(a)) # ByteOf(Head(b)) THEN ByteOf(Head(a)) < ByteOf(Head(b))
    ELSE NameLess(Tail(a), Tail(b))

RECURSIVE IntoIter(_)
\* tasks.into_iter().map(..).collect(): the entries in the order of the keys.
IntoIter(tasks) ==
    IF DOMAIN tasks = {} THEN <<>>
    ELSE LET first == CHOOSE n \in DOMAIN tasks :
                          \A m \in DOMAIN tasks \ {n} : NameLess(n, m)
         IN  <<ListedItem(first, tasks[first])>>
             \o IntoIter([n \in DOMAIN tasks \ {first} |-> tasks[n]])

(* ---- mise.rs and mask.rs: serde_json::from_str ---- *)
\* A JSON value; a member of an object is [key, value].
JsonVal(type, str, elems, members) ==
    [type |-> type, str |-> str, elems |-> elems, members |-> members]

\* The keys of the members, each with its quotes and its colon one symbol:
\* those of the structs and one that no struct has.
JsonKeys ==
    {"\"name\":", "\"description\":", "\"script\":", "\"subcommands\":",
     "\"commands\":", "\"source\":"}

RECURSIVE ParseValue(_, _)
RECURSIVE ParseElems(_, _, _)
RECURSIVE ParseMembers(_, _, _)
\* A JSON value of text s from position i.
ParseValue(s, i) ==
    IF i > Len(s) THEN NoParse
    ELSE IF s[i] = Quote
    THEN LET r == ParseString(s, i)
         IN  IF r.ok THEN Parsed(TRUE, JsonVal("string", r.value, <<>>, <<>>), r.next)
             ELSE NoParse
    ELSE IF s[i] = "null" THEN Parsed(TRUE, JsonVal("null", <<>>, <<>>, <<>>), i + 1)
    ELSE IF s[i] = "["
    THEN IF i + 1 <= Len(s) /\ s[i + 1] = "]"
         THEN Parsed(TRUE, JsonVal("array", <<>>, <<>>, <<>>), i + 2)
         ELSE ParseElems(s, i + 1, <<>>)
    ELSE IF s[i] = "{"
    THEN IF i + 1 <= Len(s) /\ s[i + 1] = "}"
         THEN Parsed(TRUE, JsonVal("object", <<>>, <<>>, <<>>), i + 2)
         ELSE ParseMembers(s, i + 1, <<>>)
    ELSE NoParse

ParseElems(s, i, acc) ==
    LET v == ParseValue(s, i)
    IN  IF ~v.ok \/ v.next > Len(s) THEN NoParse
        ELSE IF s[v.next] = "," THEN ParseElems(s, v.next + 1, Append(acc, v.value))
        ELSE IF s[v.next] = "]"
        THEN Parsed(TRUE, JsonVal("array", <<>>, Append(acc, v.value), <<>>), v.next + 1)
        ELSE NoParse

ParseMembers(s, i, acc) ==
    IF i > Len(s) \/ s[i] \notin JsonKeys THEN NoParse
    ELSE LET v == ParseValue(s, i + 1)
             member == [key |-> s[i], value |-> v.value]
         IN  IF ~v.ok \/ v.next > Len(s) THEN NoParse
             ELSE IF s[v.next] = ","
             THEN ParseMembers(s, v.next + 1, Append(acc, member))
             ELSE IF s[v.next] = "}"
             THEN Parsed(TRUE, JsonVal("object", <<>>, <<>>, Append(acc, member)),
                         v.next + 1)
             ELSE NoParse

\* The whole text is one JSON value, followed by white space at most.
ParseJson(s) ==
    LET v == ParseValue(s, 1)
    IN  IF v.ok /\ \A k \in v.next..Len(s) : s[k] \in {Newline, " "} THEN v
        ELSE NoParse

\* The values of the members of object v with the given key.
Members(v, key) ==
    LET at == {k \in 1..Len(v.members) : v.members[k].key = key}
    IN  {v.members[k].value : k \in at}

MemberCount(v, key) == Cardinality({k \in 1..Len(v.members) : v.members[k].key = key})

\* The member key of object v holds at most one value, of one of the types.
Optional(v, key, types) ==
    /\ MemberCount(v, key) <= 1
    /\ \A m \in Members(v, key) : m.type \in types

\* The value of an Option<String> member: None when absent or null.
OptString(v, key) ==
    IF \E m \in Members(v, key) : m.type = "string"
    THEN Some((CHOOSE m \in Members(v, key) : TRUE).str)
    ELSE None

NameOf(v) == (CHOOSE m \in Members(v, "\"name\":") : TRUE).str

\* desc.and_then(|desc| { let desc = desc.trim(); .. })
clean_description(desc) ==
    IF desc.kind = "some" /\ Trim(desc.args) # <<>> THEN Some(Trim(desc.args))
    ELSE None

\* Deserialize for MiseTask succeeds on v.
IsMiseTask(v) ==
    /\ v.type = "object"
    /\ MemberCount(v, "\"name\":") = 1 /\ Optional(v, "\"name\":", {"string"})
    /\ Optional(v, "\"description\":", {"string", "null"})

\* mise::parse
MiseParse(output) ==
    LET v == ParseJson(output)
    IN  IF ~v.ok \/ v.value.type # "array" THEN <<>>
        ELSE IF \E k \in 1..Len(v.value.elems) : ~IsMiseTask(v.value.elems[k]) THEN <<>>
        ELSE [k \in 1..Len(v.value.elems) |->
                 ListedItem(NameOf(v.value.elems[k]),
                            clean_description(OptString(v.value.elems[k],
                                                        "\"description\":")))]

\* The subcommands of a command, or the commands of the maskfile: the
\* elements of the member, none when it is absent.
Subs(v, key) ==
    IF MemberCount(v, key) = 0 THEN <<>>
    ELSE (CHOOSE m \in Members(v, key) : TRUE).elems

RECURSIVE IsCommand(_)
\* Deserialize for Command succeeds on v.
IsCommand(v) ==
    /\ v.type = "object"
    /\ MemberCount(v, "\"name\":") = 1 /\ Optional(v, "\"name\":", {"string"})
    /\ Optional(v, "\"description\":", {"string", "null"})
    /\ MemberCount(v, "\"script\":") <= 1
    /\ Optional(v, "\"subcommands\":", {"array"})
    /\ \A k \in 1..Len(Subs(v, "\"subcommands\":")) :
          IsCommand(Subs(v, "\"subcommands\":")[k])

RECURSIVE collect_tasks(_, _, _)
RECURSIVE CollectAll(_, _, _)
\* collect_tasks(items, command, prefix)
collect_tasks(items, command, prefix) ==
    LET name == IF prefix = <<>> THEN NameOf(command)
                ELSE prefix \o <<" ">> \o NameOf(command)
        has_script == \E m \in Members(command, "\"script\":") : m.type # "null"
        pushed == IF has_script
                  THEN Append(items,
                              ListedItem(name,
                                         clean_description(OptString(command,
                                                                     "\"description\":"))))
                  ELSE items
    IN  CollectAll(pushed, Subs(command, "\"subcommands\":"), name)

\* for command in commands { collect_tasks(items, command, prefix) }
CollectAll(items, commands, prefix) ==
    IF commands = <<>> THEN items
    ELSE CollectAll(collect_tasks(items, Head(commands), prefix), Tail(commands), prefix)

\* mask::parse
MaskParse(output) ==
    LET v == ParseJson(output)
        commands == Subs(v.value, "\"commands\":")
    IN  IF ~v.ok \/ v.value.type # "object" THEN <<>>
        ELSE IF ~Optional(v.value, "\"commands\":", {"array"}) THEN <<>>
        ELSE IF \E k \in 1..Len(commands) : ~IsCommand(commands[k]) THEN <<>>
        ELSE CollectAll(<<>>, commands, <<>>)

(* ---- parse_tasks(runner, output), called twice on the same arguments ---- *)
\* Listings of the model have at most MaxListingLines lines (or JSON
\* elements).
MaxListingLines == 3

Runners == {"justfile", "taskfile", "cargo_make", "makefile", "mise", "maskfile"}

\* Lines of the output of just --list: a banner, two recipes (one with a
\* description) and a blank line.
JustLines ==
    {Chars("Available"), <<" ", " ", "x">>, <<" ", " ", "y", " ", "#", " ", "d">>, <<>>}

\* Lines of the output of task --list.
TaskfileLines ==
    {Chars("task:"), <<"*", " ", "x", ":", " ", "d">>, <<"*", " ", "y", ":">>, <<>>}

\* Lines of the output of cargo make --list-all-steps.
CargoMakeLines ==
    {Chars("Tasks"), <<"x", " ", "-", " ", "d">>, <<"y">>, <<"B", ":">>}

\* Lines of the output of make -pn: the section markers, rules, a pattern
\* rule, a comment, a recipe line, a rule of phony targets and a line
\* without colon.
MakeLines ==
    {Chars("# Files"), Chars("# Finished"), <<"x", ":">>, <<"y", ":", " ", "z">>,
     <<"%", ".", "o", ":">>, <<"#", " ", "d">>, <<"\t", "@", "x">>,
     Chars(".PHONY:") \o <<" ", "x", " ", ".", "y">>, <<"x", " ", "=", " ", "y">>}

\* One element of the array of mise tasks --json.
MiseTask(name, description) ==
    <<"{", "\"name\":">> \o JsonString(name)
        \o (IF description.kind = "some"
            THEN <<",", "\"description\":">> \o JsonString(description.args)
            ELSE <<",", "\"description\":", "null">>)
        \o <<",", "\"source\":">> \o JsonString(<<"m">>) \o <<"}">>

\* Elements of the array: two tasks, and an object that has no name.
MiseElems ==
    {MiseTask(<<"x">>, Some(<<"d">>)), MiseTask(<<"y">>, None),
     <<"{", "\"description\":">> \o JsonString(<<"d">>) \o <<"}">>}

RECURSIVE Joined(_)
\* The elements of a JSON array or the members of an object, with commas.
Joined(elems) ==
    IF elems = <<>> THEN <<>>
    ELSE IF Len(elems) = 1 THEN elems[1]
    ELSE elems[1] \o <<",">> \o Joined(Tail(elems))

JsonArray(elems) == <<"[">> \o Joined(elems) \o <<"]">>

\* One command of mask --introspect.
MaskCommand(name, script, subcommands) ==
    <<"{", "\"name\":">> \o JsonString(name)
        \o <<",", "\"description\":">> \o JsonString(<<>>)
        \o (IF script.kind = "some" THEN <<",", "\"script\":">> \o script.args
            ELSE <<>>)
        \o <<",", "\"subcommands\":">> \o JsonArray(subcommands) \o <<"}">>

\* Commands: two with a script, one whose script is null, one without
\* script that has a subcommand.
MaskCommands ==
    {MaskCommand(<<"x">>, Some(JsonString(<<"s">>)), <<>>),
     MaskCommand(<<"y">>, Some(<<"{", "}">>), <<>>),
     MaskCommand(<<"v">>, Some(<<"null">>), <<>>),
     MaskCommand(<<"w">>, None,
                 <<MaskCommand(<<"z">>, Some(JsonString(<<"s">>)), <<>>)>>)}

\* The outputs of the list command of a runner; the JSON ones include a
\* text that is no JSON.
OutputsOf(runner) ==
    CASE runner = "justfile" ->
            {Text(ls) : ls \in SeqsUpTo(JustLines, MaxListingLines)}
      [] runner = "taskfile" ->
            {Text(ls) : ls \in SeqsUpTo(TaskfileLines, MaxListingLines)}
      [] runner = "cargo_make" ->
            {Text(ls) : ls \in SeqsUpTo(CargoMakeLines, MaxListingLines)}
      [] runner = "makefile" ->
            {Text(ls) : ls \in SeqsUpTo(MakeLines, MaxListingLines)}
      [] runner = "mise" ->
            {JsonArray(es) \o <<Newline>> : es \in SeqsUpTo(MiseElems, MaxListingLines)}
               \cup {<<"n", "o">>}
      [] runner = "maskfile" ->
            {<<"{", "\"commands\":">> \o JsonArray(cs) \o <<"}">> :
                 cs \in SeqsUpTo(MaskCommands, MaxListingLines)}
               \cup {<<"n", "o">>, <<"{", "}">>}

\* What read_makefile_source_from_disk finds in the working directory:
\* no makefile, or the text of one.
DiskChoices ==
    {None, Some(Text(<<<<"x", ":", " ", "#", " ", "s">>>>)),
     Some(Text(<<<<"#", " ", "t">>, <<"y", " ", "x", ":">>>>))}

InitListing ==
    /\ ResolveIdle /\ TokIdle /\ LedgerIdle
    /\ plan = NoPlan /\ run = NoRun /\ texts = <<>> /\ scan = NoScan
    /\ \E runner \in Runners, disk \in [1..2 -> DiskChoices] :
          \E output \in OutputsOf(runner) :
             listing = [NoListing EXCEPT !.pc = "call", !.runner = runner,
                                         !.output = output, !.disk = disk,
                                         !.call = 1]

OutputLines == Lines(listing.output)

\* parse_tasks: match runner { .. }
ParseTasks ==
    /\ listing.pc = "call"
    /\ listing' = [listing EXCEPT
                      !.pc = listing.runner,
                      !.pos = 1,
                      !.items = <<>>,
                      !.pending_desc = None,
                      !.in_files = listing.runner = "makefile"
                                      /\ ~HasFilesSection(OutputLines)]
    /\ UNCHANGED notListing

\* The item of a line is pushed, if it has one.
Push(items, item) == IF item.kind = "some" THEN Append(items, item.args) ELSE items

\* One turn of the loop of justfile::parse.
JustLine ==
    /\ listing.pc = "justfile"
    /\ listing.pos <= Len(OutputLines)
    /\ listing' = [listing EXCEPT
                      !.items = Push(@, JustItem(OutputLines[listing.pos])),
                      !.pos = @ + 1]
    /\ UNCHANGED notListing

\* One turn of the loop of taskfile::parse.
TaskfileLine ==
    /\ listing.pc = "taskfile"
    /\ listing.pos <= Len(OutputLines)
    /\ listing' = [listing EXCEPT
                      !.items = Push(@, TaskfileItem(OutputLines[listing.pos])),
                      !.pos = @ + 1]
    /\ UNCHANGED notListing

\* One turn of the loop of cargo_make::parse.
CargoMakeLine ==
    /\ listing.pc = "cargo_make"
    /\ listing.pos <= Len(OutputLines)
    /\ listing' = [listing EXCEPT
                      !.items = Push(@, CargoMakeItem(OutputLines[listing.pos])),
                      !.pos = @ + 1]
    /\ UNCHANGED notListing

\* The loop of a line dialect is over: the items are returned as pushed.
LinesReturn ==
    /\ listing.pc \in {"justfile", "taskfile", "cargo_make"}
    /\ listing.pos > Len(OutputLines)
    /\ listing' = [listing EXCEPT !.pc = "done", !.ret = listing.items]
    /\ UNCHANGED notListing

\* One turn of the loop of parse_with_makefile_source.
MakeNext ==
    /\ listing.pc = "makefile"
    /\ listing.pos <= Len(OutputLines)
    /\ listing' = [MakeLine(listing, OutputLines[listing.pos]) EXCEPT !.pos = @ + 1]
    /\ UNCHANGED notListing

\* After the loop of makefile::parse: the descriptions of the makefile of
\* the working directory are filled in and the map is returned in the
\* order of its keys.
MakeReturn ==
    /\ \/ listing.pc = "makefile" /\ listing.pos > Len(OutputLines)
       \/ listing.pc = "fill"
    /\ listing' = [listing EXCEPT
                      !.pc = "done",
                      !.ret = IntoIter(Backfill(listing.items,
                                                listing.disk[listing.call]))]
    /\ UNCHANGED notListing

\* mise::parse
MiseReturn ==
    /\ listing.pc = "mise"
    /\ listing' = [listing EXCEPT !.pc = "done", !.ret = MiseParse(listing.output)]
    /\ UNCHANGED notListing

\* mask::parse
MaskReturn ==
    /\ listing.pc = "maskfile"
    /\ listing' = [listing EXCEPT !.pc = "done", !.ret = MaskParse(listing.output)]
    /\ UNCHANGED notListing

\* The caller keeps the catalog and calls parse_tasks again with the same
\* arguments.
ParseAgain ==
    /\ listing.pc = "done"
    /\ listing.call = 1
    /\ listing' = [listing EXCEPT !.pc = "call", !.call = 2, !.first = listing.ret,
                                  !.ret = <<>>, !.items = <<>>, !.pos = 0,
                                  !.in_files = FALSE, !.pending_desc = None]
    /\ UNCHANGED notListing

NextListing ==
    \/ ParseTasks
    \/ JustLine
    \/ TaskfileLine
    \/ CargoMakeLine
    \/ LinesReturn
    \/ MakeNext
    \/ MakeReturn
    \/ MiseReturn
    \/ MaskReturn
    \/ ParseAgain

SpecListing == InitListing /\ [][NextListing]_vars

\* A call of parse_tasks has returned.
Listed == listing.pc = "done"

\* The names of a catalog, in its order.
NamesOf(catalog) == [k \in 1..Len(catalog) |-> catalog[k].name]

\* Where a task first appears in a text: the least position at which its
\* own name (the last word of the name of a nested command) stands, and
\* past the end when it stands nowhere.
FirstAt(text, name) ==
    LET word == Words(name)[Len(Words(name))]
        at == {k \in 1..Len(text) :
                  /\ k + Len(word) - 1 <= Len(text)
                  /\ SubSeq(text, k, k + Len(word) - 1) = word}
    IN  IF at = {} THEN Len(text) + 1 ELSE CHOOSE k \in at : \A j \in at : k <= j

\* Where a name first stands in a sequence of names.
FirstIn(names, name) ==
    CHOOSE k \in 1..Len(names) : names[k] = name /\ \A j \in 1..(k - 1) : names[j] # name

\* C22: whenever a format parser has returned, of two different names of
\* the catalog the one listed first is the one that appears first in the
\* raw text.
C22_AsClaimed ==
    Listed =>
        LET names == NamesOf(listing.ret)
        IN  \A n \in Range(names), m \in Range(names) :
                FirstIn(names, n) < FirstIn(names, m)
                    => FirstAt(listing.output, n) <= FirstAt(listing.output, m)

\* C23: whenever a format parser has returned, the names of the catalog
\* are pairwise distinct.
C23_AsClaimed ==
    Listed =>
        \A i \in 1..Len(listing.ret), j \in 1..Len(listing.ret) :
            i # j => listing.ret[i].name # listing.ret[j].name

\* C24: whenever the make parser has returned, no name of the catalog
\* contains %, $ or =, and none starts with a dot.
C24_AsClaimed ==
    (Listed /\ listing.runner = "makefile") =>
        \A k \in 1..Len(listing.ret) :
            /\ \A i \in 1..Len(listing.ret[k].name) :
                  listing.ret[k].name[i] \notin {"%", "$", "="}
            /\ listing.ret[k].name[1] # "."

\* C25: whenever the second of two calls with the same runner and the
\* same output has returned, its catalog is the catalog of the first.
C25_AsClaimed ==
    (Listed /\ listing.call = 2) => listing.ret = listing.first

====
